---- MODULE Spec2Model ----
(***************************************************************************)
(* Verification model of the iot-cli device data plane:                    *)
(*   - the terminal transport session (internal/terminal: Session.Run,     *)
(*     readLoop, writeLoop, sendSize, Close, handleResizeUnix),            *)
(*   - the rate-limited stream adapters and the cancellable copy loop      *)
(*     (internal/file: ThrottledReader, ThrottledWriter, CopyWithContext), *)
(*   - the transfer orchestrator (internal/file/transfer.go),              *)
(*   - the binary message codec (internal/terminal: BuildMessage,          *)
(*     ParseMessage),                                                      *)
(*   - uploadFile's read of the local file, the put command's validation,  *)
(*     ParseBandwidthLimit, and readLoop's handling of received frames.    *)
(* Each component has its own specification; the variables of the other    *)
(* components stay at their idle values.                                   *)
(***************************************************************************)
EXTENDS Integers, Sequences, FiniteSets, TLC

VARIABLES
    \* ---- terminal session (Session struct and its goroutines) ----
    pc,          \* position of each goroutine of the session
    done,        \* s.done is closed
    oldState,    \* s.oldState: "nil" or "saved"
    termRaw,     \* the local terminal is in raw mode
    connOpen,    \* s.conn has not been released by conn.Close()
    seqNum,      \* s.seqNum
    tmp,         \* per goroutine: the value of s.seqNum loaded by s.seqNum++
    running,     \* the pumps that have started and not yet terminated
    panicked,    \* the process died of "close of closed channel"
    exited,      \* the process left runSSH after Run returned
    runErr,      \* Run returned a non-nil error
    closeFrames, \* normal-closure control frames written by Close
    connCloses,  \* conn.Close() calls made by Close
    doneCloses,  \* successful close(s.done) operations
    env,         \* [stdinTerm, stdoutTerm, windows]: the platform the session runs on
    inputs,      \* chunks read from standard input so far
    frames,      \* per frame received so far: whether it was an ExitCode frame
    resizes,     \* SIGWINCH events delivered so far
    sent,        \* the sequence number in the last data frame passed to
                 \* WriteMessage, 0 before the first
    \* ---- rate-limited stream adapters ----
    rd,          \* the reader NewThrottledReader returned (ThrottledReader fields)
    rSlept,      \* the previous Read slept its 10 ms
    src,         \* the bytes of the wrapped source
    rPos,        \* bytes of the source consumed so far
    rOut,        \* bytes the caller's read-to-EOF loop has received, in order
    rPc,         \* "read" while the caller loops, "done" after io.EOF
    wr,          \* the writer NewThrottledWriter returned (ThrottledWriter fields)
    wSlept,      \* the previous iteration of Write slept its 10 ms
    wBuf,        \* the buffer p passed to Write
    written,     \* Write's local count of bytes written
    wOut,        \* bytes the wrapped writer has received, in order
    wPc,         \* "loop" inside Write, "ok" / "err" once it returned
    \* ---- CopyWithContext ----
    ctxDone,     \* ctx.Done() is closed (cancelled, or deadline exceeded)
    midCopy,     \* the context was cancelled while the copy was under way
    cSrcLen,     \* size of the source in bytes
    cPos,        \* bytes read from the source so far
    cNr,         \* nr of the last src.Read
    cRerr,       \* rerr of the last src.Read: "nil", "EOF" or "err"
    cWritten,    \* the local variable written
    cDst,        \* bytes the destination holds
    cPc,         \* "check", "read", "write", or "ret" once it returned
    cErr,        \* the error returned: "nil", "ctx", "read", "write", "short"
    \* ---- transfer orchestrator (Download / Upload) ----
    opts,        \* TransferOptions: Recursive, Force, DryRun
    direction,   \* "download" or "upload"
    tops,        \* the remote path (download) or the local paths (upload), as trees
    stack,       \* the active calls: the top-level call, then downloadDirectory /
                 \* uploadDirectory calls, each with its loop index
    result,      \* TransferResult: FilesTransferred, BytesTransferred, Errors
    retErr,      \* the error the call returned: <<>> for nil, else the failure
    tPc,         \* "start", "run", or "ret" once Download / Upload returned
    attempts,    \* the children whose processing was started, in order
    failLog,     \* the children whose processing failed, in order
    described,   \* files a dry run described ("Would download/upload: ...")
    localExists, \* download: the local destinations of the files exist already
    effects,     \* the kinds of mutation and of transfer request performed
    \* ---- codec (BuildMessage / ParseMessage) ----
    mType,       \* messageType, as its bytes
    mPayloadType,\* payloadType
    mPayload,    \* payload
    mSeq,        \* sequenceNumber, an int64
    wire,        \* the bytes BuildMessage returned
    parsed,      \* what ParseMessage returned: the message and the error
    kPc,         \* "build", "parse" or "done"
    \* ---- uploadFile: the read of the local file ----
    uCtxDone,    \* the caller's context is cancelled or past its deadline
    uPosAtCancel,\* the bytes read when the context was cancelled, -1 before
    uPc,         \* "read" (io.ReadAll), "ret" once uploadFile returned
    uErr,        \* the error uploadFile returned: "nil", "ctx", "http"
    uSize,       \* the size os.Stat / entry.Info gave for the file before the call
    uResult,     \* the caller's TransferResult: FilesTransferred, BytesTransferred
    \* ---- the put command (runPut) and its call of Upload ----
    put,         \* the call: which local paths exist, whether the destination
                 \* parses and ends in "/", whether the limit parses, and
                 \* whether Upload is called directly instead of by runPut
    pPc,         \* "dest", "stat", "validate", "limit", "upload", "ret"
    pI,          \* the index of the loop over the local paths
    pLog,        \* the filesystem and network activity so far, in order
    pErr,        \* the error returned, "nil" for none
    \* ---- ParseBandwidthLimit ----
    lParts,      \* the parts the input is made of: number, suffix, blanks
    lIn,         \* the input string, as its characters
    lOut,        \* what ParseBandwidthLimit returned
    lPc,         \* "parse" or "done"
    \* ---- readLoop: frames in, standard output out ----
    oRecv,       \* the frames ReadMessage has delivered, in order
    oStdout,     \* the bytes passed to os.Stdout.Write, in order
    oPc,         \* "select", "recv", "close" (the deferred Close), "returned"
    oDone,       \* s.done is closed
    oConnOpen,   \* s.conn has not been released
    \* ---- update check: CompareVersions, IsUpdateAvailable ----
    info,        \* UpdateInfo: LatestVersion and CurrentVersion, as characters
    vCmp,        \* CompareVersions(info.LatestVersion, info.CurrentVersion)
    vAvail,      \* what info.IsUpdateAvailable() returned
    vPc          \* "check" or "done"

svars == <<pc, done, oldState, termRaw, connOpen, seqNum, tmp, running, panicked,
           exited, runErr, closeFrames, connCloses, doneCloses, env, inputs,
           frames, resizes, sent>>

tvars == <<rd, rSlept, src, rPos, rOut, rPc, wr, wSlept, wBuf, written, wOut, wPc>>

cvars == <<ctxDone, midCopy, cSrcLen, cPos, cNr, cRerr, cWritten, cDst, cPc, cErr>>

xvars == <<opts, direction, tops, stack, result, retErr, tPc, attempts, failLog,
           described, localExists, effects>>

kvars == <<mType, mPayloadType, mPayload, mSeq, wire, parsed, kPc>>

uvars == <<uCtxDone, uPosAtCancel, uPc, uErr, uSize, uResult>>

pvars == <<put, pPc, pI, pLog, pErr>>

lvars == <<lParts, lIn, lOut, lPc>>

ovars == <<oRecv, oStdout, oPc, oDone, oConnOpen>>

vvars == <<info, vCmp, vAvail, vPc>>

vars == <<svars, tvars, cvars, xvars, kvars, uvars, pvars, lvars, ovars, vvars>>

\* What the session leaves alone, and what the stream adapters leave alone.
nonSession == <<tvars, cvars, xvars, kvars, uvars, pvars, lvars, ovars, vvars>>
nonThrottle == <<svars, cvars, xvars, kvars, uvars, pvars, lvars, ovars, vvars>>
nonCopy == <<svars, tvars, xvars, kvars, uvars, pvars, lvars, ovars, vvars>>
nonTransfer == <<svars, tvars, cvars, kvars, uvars, pvars, lvars, ovars, vvars>>
nonCodec == <<svars, tvars, cvars, xvars, uvars, pvars, lvars, ovars, vvars>>
nonUpload == <<svars, tvars, cvars, xvars, kvars, pvars, lvars, ovars, vvars>>
nonPut == <<svars, tvars, cvars, xvars, kvars, uvars, lvars, ovars, vvars>>
nonLimit == <<svars, tvars, cvars, xvars, kvars, uvars, pvars, ovars, vvars>>
nonPump == <<svars, tvars, cvars, xvars, kvars, uvars, pvars, lvars, vvars>>
nonVersion == <<svars, tvars, cvars, xvars, kvars, uvars, pvars, lvars, ovars>>

(***************************************************************************)
(* Bounds of the session model.                                            *)
(***************************************************************************)
MaxInput == 1
MaxFrames == 1
MaxResize == 1

Tasks == {"main", "sig", "resize", "read"}

\* The goroutines that call Close: writeLoop (in Run's goroutine), the deferred
\* call of readLoop, the signal handler.
Closers == {"main", "sig", "read"}

\* The goroutines that call sendSize: Run itself and the resize watcher.
Sizers == {"main", "resize"}

Alive == ~panicked /\ ~exited

SessionInit ==
    /\ pc = [t \in Tasks |-> IF t = "main" THEN "raw" ELSE "idle"]
    /\ done = FALSE
    /\ oldState = "nil"
    /\ termRaw = FALSE
    /\ connOpen = TRUE
    /\ seqNum = 0
    /\ tmp = [t \in Sizers |-> 0]
    /\ running = {}
    /\ panicked = FALSE
    /\ exited = FALSE
    /\ runErr = FALSE
    /\ closeFrames = 0
    /\ connCloses = 0
    /\ doneCloses = 0
    /\ env \in [stdinTerm : BOOLEAN, stdoutTerm : BOOLEAN, windows : BOOLEAN]
    /\ inputs = 0
    /\ frames = <<>>
    /\ resizes = 0
    /\ sent = 0

SessionIdle ==
    /\ pc = [t \in Tasks |-> "off"]
    /\ done = FALSE
    /\ oldState = "nil"
    /\ termRaw = FALSE
    /\ connOpen = TRUE
    /\ seqNum = 0
    /\ tmp = [t \in Sizers |-> 0]
    /\ running = {}
    /\ panicked = FALSE
    /\ exited = FALSE
    /\ runErr = FALSE
    /\ closeFrames = 0
    /\ connCloses = 0
    /\ doneCloses = 0
    /\ env = [stdinTerm |-> FALSE, stdoutTerm |-> FALSE, windows |-> FALSE]
    /\ inputs = 0
    /\ frames = <<>>
    /\ resizes = 0
    /\ sent = 0

\* Where a goroutine goes on when its call of Close returns.
AfterClose(t) == IF t = "main" THEN "wl_return" ELSE "done"

\* Where a goroutine goes on when its call of sendSize returns.
AfterSendSize(t) == IF t = "main" THEN "go_read" ELSE "rz_select"

\* The pumps left running when goroutine t reaches position p.
RunningAfter(t, p) ==
    IF t = "read" /\ p = "done" THEN running \ {"read"}
    ELSE IF t = "main" /\ p = "wl_return" THEN running \ {"write"}
    ELSE running

(***************************************************************************)
(* Session.Close                                                           *)
(***************************************************************************)
\* select { case <-s.done: return; default: ... }: the receive of the select.
CloseSelect(t) ==
    /\ Alive /\ pc[t] = "close_select"
    /\ UNCHANGED nonSession
    /\ UNCHANGED sent
    /\ IF done
          THEN /\ pc' = [pc EXCEPT ![t] = AfterClose(t)]
               /\ running' = RunningAfter(t, AfterClose(t))
          ELSE /\ pc' = [pc EXCEPT ![t] = "close_chan"]
               /\ running' = running
    /\ UNCHANGED <<done, oldState, termRaw, connOpen, seqNum, tmp, panicked, exited,
                   runErr, closeFrames, connCloses, doneCloses, env, inputs, frames,
                   resizes>>

\* close(s.done) in the default branch: closing a closed channel panics.
CloseChan(t) ==
    /\ Alive /\ pc[t] = "close_chan"
    /\ UNCHANGED nonSession
    /\ UNCHANGED sent
    /\ IF done
          THEN /\ panicked' = TRUE
               /\ UNCHANGED <<pc, done, doneCloses>>
          ELSE /\ done' = TRUE
               /\ doneCloses' = doneCloses + 1
               /\ pc' = [pc EXCEPT ![t] = "close_restore"]
               /\ UNCHANGED panicked
    /\ UNCHANGED <<oldState, termRaw, connOpen, seqNum, tmp, running, exited, runErr,
                   closeFrames, connCloses, env, inputs, frames, resizes>>

\* restoreTerminal: term.Restore when a state was saved.
restoreTerminal == IF oldState # "nil" THEN FALSE ELSE termRaw

CloseRestore(t) ==
    /\ Alive /\ pc[t] = "close_restore"
    /\ UNCHANGED nonSession
    /\ UNCHANGED sent
    /\ termRaw' = restoreTerminal
    /\ pc' = [pc EXCEPT ![t] = "close_write"]
    /\ UNCHANGED <<done, oldState, connOpen, seqNum, tmp, running, panicked, exited,
                   runErr, closeFrames, connCloses, doneCloses, env, inputs, frames,
                   resizes>>

\* s.conn.WriteMessage(websocket.CloseMessage, ...), its error ignored.
CloseWrite(t) ==
    /\ Alive /\ pc[t] = "close_write"
    /\ UNCHANGED nonSession
    /\ UNCHANGED sent
    /\ closeFrames' = closeFrames + 1
    /\ pc' = [pc EXCEPT ![t] = "close_conn"]
    /\ UNCHANGED <<done, oldState, termRaw, connOpen, seqNum, tmp, running, panicked,
                   exited, runErr, connCloses, doneCloses, env, inputs, frames, resizes>>

\* s.conn.Close(), then Close returns to its caller.
CloseConn(t) ==
    /\ Alive /\ pc[t] = "close_conn"
    /\ UNCHANGED nonSession
    /\ UNCHANGED sent
    /\ connOpen' = FALSE
    /\ connCloses' = connCloses + 1
    /\ pc' = [pc EXCEPT ![t] = AfterClose(t)]
    /\ running' = RunningAfter(t, AfterClose(t))
    /\ UNCHANGED <<done, oldState, termRaw, seqNum, tmp, panicked, exited, runErr,
                   closeFrames, doneCloses, env, inputs, frames, resizes>>

(***************************************************************************)
(* Session.sendSize                                                        *)
(***************************************************************************)
\* term.IsTerminal(stdout), term.GetSize, and the load of s.seqNum++.
SendSizeCheck(t) ==
    /\ Alive /\ pc[t] = "ss_check"
    /\ UNCHANGED nonSession
    /\ UNCHANGED sent
    /\ \/ /\ env.stdoutTerm
          /\ tmp' = [tmp EXCEPT ![t] = seqNum]
          /\ pc' = [pc EXCEPT ![t] = "ss_store"]
       \/ \* stdout is no terminal, or GetSize failed: return
          /\ pc' = [pc EXCEPT ![t] = AfterSendSize(t)]
          /\ tmp' = tmp
    /\ UNCHANGED <<done, oldState, termRaw, connOpen, seqNum, running, panicked,
                   exited, runErr, closeFrames, connCloses, doneCloses, env, inputs,
                   frames, resizes>>

\* The store of s.seqNum++.
SendSizeStore(t) ==
    /\ Alive /\ pc[t] = "ss_store"
    /\ UNCHANGED nonSession
    /\ UNCHANGED sent
    /\ seqNum' = tmp[t] + 1
    /\ tmp' = [tmp EXCEPT ![t] = 0]
    /\ pc' = [pc EXCEPT ![t] = "ss_write"]
    /\ UNCHANGED <<done, oldState, termRaw, connOpen, running, panicked, exited,
                   runErr, closeFrames, connCloses, doneCloses, env, inputs, frames,
                   resizes>>

\* msg := BuildResizeMessage(width, height, s.seqNum) and
\* s.conn.WriteMessage(msg), its error ignored.
SendSizeWrite(t) ==
    /\ Alive /\ pc[t] = "ss_write"
    /\ UNCHANGED nonSession
    /\ sent' = seqNum
    /\ pc' = [pc EXCEPT ![t] = AfterSendSize(t)]
    /\ UNCHANGED <<done, oldState, termRaw, connOpen, seqNum, tmp, running, panicked,
                   exited, runErr, closeFrames, connCloses, doneCloses, env, inputs,
                   frames, resizes>>

(***************************************************************************)
(* Session.Run                                                             *)
(***************************************************************************)
\* term.IsTerminal(stdin) and term.MakeRaw: a failure returns the error.
RunMakeRaw ==
    /\ Alive /\ pc["main"] = "raw"
    /\ UNCHANGED nonSession
    /\ UNCHANGED sent
    /\ \/ /\ env.stdinTerm
          /\ oldState' = "saved"
          /\ termRaw' = TRUE
          /\ pc' = [pc EXCEPT !["main"] = "notify"]
          /\ runErr' = runErr
       \/ /\ env.stdinTerm
          /\ runErr' = TRUE
          /\ pc' = [pc EXCEPT !["main"] = "returned"]
          /\ UNCHANGED <<oldState, termRaw>>
       \/ /\ ~env.stdinTerm
          /\ pc' = [pc EXCEPT !["main"] = "notify"]
          /\ UNCHANGED <<oldState, termRaw, runErr>>
    /\ UNCHANGED <<done, connOpen, seqNum, tmp, running, panicked, exited,
                   closeFrames, connCloses, doneCloses, env, inputs, frames, resizes>>

\* signal.Notify and the goroutine that waits for SIGINT/SIGTERM.
RunNotify ==
    /\ Alive /\ pc["main"] = "notify"
    /\ UNCHANGED nonSession
    /\ UNCHANGED sent
    /\ pc' = [pc EXCEPT !["main"] = "setup_resize", !["sig"] = "sig_wait"]
    /\ UNCHANGED <<done, oldState, termRaw, connOpen, seqNum, tmp, running, panicked,
                   exited, runErr, closeFrames, connCloses, doneCloses, env, inputs,
                   frames, resizes>>

\* setupResizeHandler: go s.handleResizeUnix() unless on Windows; then Run
\* calls sendSize.
setupResizeHandler ==
    /\ Alive /\ pc["main"] = "setup_resize"
    /\ UNCHANGED nonSession
    /\ UNCHANGED sent
    /\ pc' = [pc EXCEPT !["main"] = "ss_check",
                        !["resize"] = IF env.windows THEN "idle" ELSE "rz_select"]
    /\ UNCHANGED <<done, oldState, termRaw, connOpen, seqNum, tmp, running, panicked,
                   exited, runErr, closeFrames, connCloses, doneCloses, env, inputs,
                   frames, resizes>>

\* go s.readLoop(); s.writeLoop()
RunStartPumps ==
    /\ Alive /\ pc["main"] = "go_read"
    /\ UNCHANGED nonSession
    /\ UNCHANGED sent
    /\ pc' = [pc EXCEPT !["main"] = "wl_select", !["read"] = "rl_select"]
    /\ running' = running \cup {"read", "write"}
    /\ UNCHANGED <<done, oldState, termRaw, connOpen, seqNum, tmp, panicked, exited,
                   runErr, closeFrames, connCloses, doneCloses, env, inputs, frames,
                   resizes>>

\* writeLoop has returned: Run runs its deferred restoreTerminal (registered
\* exactly when a state was saved) and returns nil.
RunReturn ==
    /\ Alive /\ pc["main"] = "wl_return"
    /\ UNCHANGED nonSession
    /\ UNCHANGED sent
    /\ termRaw' = restoreTerminal
    /\ pc' = [pc EXCEPT !["main"] = "returned"]
    /\ UNCHANGED <<done, oldState, connOpen, seqNum, tmp, running, panicked, exited,
                   runErr, closeFrames, connCloses, doneCloses, env, inputs, frames,
                   resizes>>

\* runSSH returns after Run: the process ends, with every goroutine.
ProcessExit ==
    /\ Alive /\ pc["main"] = "returned"
    /\ UNCHANGED nonSession
    /\ UNCHANGED sent
    /\ exited' = TRUE
    /\ UNCHANGED <<pc, done, oldState, termRaw, connOpen, seqNum, tmp, running,
                   panicked, runErr, closeFrames, connCloses, doneCloses, env, inputs,
                   frames, resizes>>

\* The signal goroutine: <-sigChan, then s.Close().
SignalHandler ==
    /\ Alive /\ pc["sig"] = "sig_wait"
    /\ UNCHANGED nonSession
    /\ UNCHANGED sent
    /\ pc' = [pc EXCEPT !["sig"] = "close_select"]
    /\ UNCHANGED <<done, oldState, termRaw, connOpen, seqNum, tmp, running, panicked,
                   exited, runErr, closeFrames, connCloses, doneCloses, env, inputs,
                   frames, resizes>>

(***************************************************************************)
(* Session.writeLoop                                                       *)
(***************************************************************************)
\* What the select on s.done does in writeLoop: return when closed.
writeLoopOnDone == "wl_return"

\* A writeLoop that returns on a read error that is not io.EOF.
writeLoopOnReadErrorReturns == "wl_return"

\* What writeLoop does on a read error that is not io.EOF: continue.
writeLoopOnReadError == "wl_select"

WriteLoopSelect ==
    /\ Alive /\ pc["main"] = "wl_select"
    /\ UNCHANGED nonSession
    /\ UNCHANGED sent
    /\ LET p == IF done THEN writeLoopOnDone ELSE "wl_read"
       IN /\ pc' = [pc EXCEPT !["main"] = p]
          /\ running' = RunningAfter("main", p)
    /\ UNCHANGED <<done, oldState, termRaw, connOpen, seqNum, tmp, panicked, exited,
                   runErr, closeFrames, connCloses, doneCloses, env, inputs, frames,
                   resizes>>

\* os.Stdin.Read(buf): end of input, another error, or a chunk (with the load of
\* s.seqNum++).
WriteLoopRead ==
    /\ Alive /\ pc["main"] = "wl_read"
    /\ UNCHANGED nonSession
    /\ UNCHANGED sent
    /\ \/ /\ pc' = [pc EXCEPT !["main"] = "close_select"]
          /\ UNCHANGED <<tmp, inputs, running>>
       \/ /\ pc' = [pc EXCEPT !["main"] = writeLoopOnReadError]
          /\ running' = RunningAfter("main", writeLoopOnReadError)
          /\ UNCHANGED <<tmp, inputs>>
       \/ /\ inputs < MaxInput
          /\ inputs' = inputs + 1
          /\ tmp' = [tmp EXCEPT !["main"] = seqNum]
          /\ pc' = [pc EXCEPT !["main"] = "wl_store"]
          /\ running' = running
    /\ UNCHANGED <<done, oldState, termRaw, connOpen, seqNum, panicked, exited,
                   runErr, closeFrames, connCloses, doneCloses, env, frames, resizes>>

\* The store of s.seqNum++.
WriteLoopStore ==
    /\ Alive /\ pc["main"] = "wl_store"
    /\ UNCHANGED nonSession
    /\ UNCHANGED sent
    /\ seqNum' = tmp["main"] + 1
    /\ tmp' = [tmp EXCEPT !["main"] = 0]
    /\ pc' = [pc EXCEPT !["main"] = "wl_write"]
    /\ UNCHANGED <<done, oldState, termRaw, connOpen, running, panicked, exited,
                   runErr, closeFrames, connCloses, doneCloses, env, inputs, frames,
                   resizes>>

\* s.conn.WriteMessage(BuildInputMessage(...)): an error (always, once the
\* connection is released) leads to Close.
WriteLoopWrite ==
    /\ Alive /\ pc["main"] = "wl_write"
    /\ UNCHANGED nonSession
    /\ sent' = seqNum
    /\ \/ /\ connOpen
          /\ pc' = [pc EXCEPT !["main"] = "wl_select"]
       \/ /\ pc' = [pc EXCEPT !["main"] = "close_select"]
    /\ UNCHANGED <<done, oldState, termRaw, connOpen, seqNum, tmp, running, panicked,
                   exited, runErr, closeFrames, connCloses, doneCloses, env, inputs,
                   frames, resizes>>

(***************************************************************************)
(* Session.readLoop                                                        *)
(***************************************************************************)
ReadLoopSelect ==
    /\ Alive /\ pc["read"] = "rl_select"
    /\ UNCHANGED nonSession
    /\ UNCHANGED sent
    /\ pc' = [pc EXCEPT !["read"] = IF done THEN "close_select" ELSE "rl_recv"]
    /\ UNCHANGED <<done, oldState, termRaw, connOpen, seqNum, tmp, running, panicked,
                   exited, runErr, closeFrames, connCloses, doneCloses, env, inputs,
                   frames, resizes>>

\* The kinds of frame the read pump tells apart.
FrameKinds == {"output", "exit", "ignored"}

\* s.conn.ReadMessage(): an error (always, once the connection is released)
\* returns, and so does an ExitCode frame; the deferred Close runs.
ReadLoopRecv ==
    /\ Alive /\ pc["read"] = "rl_recv"
    /\ UNCHANGED nonSession
    /\ UNCHANGED sent
    /\ \/ /\ pc' = [pc EXCEPT !["read"] = "close_select"]
          /\ frames' = frames
       \/ /\ connOpen /\ Len(frames) < MaxFrames
          /\ \E k \in FrameKinds :
                /\ frames' = Append(frames, k = "exit")
                /\ pc' = [pc EXCEPT !["read"] =
                             IF k = "exit" THEN "close_select" ELSE "rl_select"]
    /\ UNCHANGED <<done, oldState, termRaw, connOpen, seqNum, tmp, running, panicked,
                   exited, runErr, closeFrames, connCloses, doneCloses, env, inputs,
                   resizes>>

(***************************************************************************)
(* Session.handleResizeUnix                                                *)
(***************************************************************************)
\* select { case <-s.done: return; case <-sigChan: s.sendSize() }
handleResizeUnix ==
    /\ Alive /\ pc["resize"] = "rz_select"
    /\ UNCHANGED nonSession
    /\ UNCHANGED sent
    /\ \/ /\ done
          /\ pc' = [pc EXCEPT !["resize"] = "done"]
          /\ resizes' = resizes
       \/ /\ resizes < MaxResize
          /\ resizes' = resizes + 1
          /\ pc' = [pc EXCEPT !["resize"] = "ss_check"]
    /\ UNCHANGED <<done, oldState, termRaw, connOpen, seqNum, tmp, running, panicked,
                   exited, runErr, closeFrames, connCloses, doneCloses, env, inputs,
                   frames>>

SessionNext ==
    \/ RunMakeRaw
    \/ RunNotify
    \/ setupResizeHandler
    \/ RunStartPumps
    \/ RunReturn
    \/ ProcessExit
    \/ SignalHandler
    \/ WriteLoopSelect
    \/ WriteLoopRead
    \/ WriteLoopStore
    \/ WriteLoopWrite
    \/ ReadLoopSelect
    \/ ReadLoopRecv
    \/ handleResizeUnix
    \/ \E t \in Sizers : SendSizeCheck(t)
    \/ \E t \in Sizers : SendSizeStore(t)
    \/ \E t \in Sizers : SendSizeWrite(t)
    \/ \E t \in Closers : CloseSelect(t)
    \/ \E t \in Closers : CloseChan(t)
    \/ \E t \in Closers : CloseRestore(t)
    \/ \E t \in Closers : CloseWrite(t)
    \/ \E t \in Closers : CloseConn(t)


(***************************************************************************)
(* Claims about the terminal session (checked under SpecSession).          *)
(***************************************************************************)

\* C1: Close is one-shot under concurrency: whatever the interleaving of the
\* Close calls of the read pump, the write pump and the signal handler, the
\* done signal is closed once, one normal-closure frame is sent, the
\* connection is released once, and no call fails by closing the done signal
\* a second time.
CloseIsOneShot ==
    /\ ~panicked
    /\ doneCloses <= 1
    /\ closeFrames <= 1
    /\ connCloses <= 1

\* C2 (as claimed): when Run returns, neither pump is still running.
RunWaitsForBothPumps == pc["main"] = "returned" => running = {}

\* C2 (amended): when Run returns without error, the session's close has been
\* triggered (the done signal is closed) and the write pump has terminated;
\* the read pump is not waited for.
RunWaitsForWritePump ==
    (pc["main"] = "returned" /\ ~runErr) => (done /\ "write" \notin running)

\* C2 witness: Run has returned while the read pump is still running.
RunReturnedReadPumpRunning ==
    pc["main"] = "returned" /\ ~runErr /\ done /\ "read" \in running

\* C3: while the write pump is running no other goroutine is inside an update
\* of the sequence counter (between the load and the store of s.seqNum++).
SeqNumOnlyWritePump ==
    "write" \in running => \A t \in Sizers \ {"main"} : pc[t] # "ss_store"

\* C8: when Run has returned to its caller, on whatever exit path, the
\* connection has been released.
ConnReleasedWhenRunReturns == pc["main"] = "returned" => ~connOpen

\* C9: if Run switched the terminal to raw mode, then once the session has
\* ended (Run returned, the connection was released by Close, or the process
\* died in Close) the terminal is no longer in raw mode.
TerminalRestoredOnExit ==
    (oldState = "saved" /\ (pc["main"] = "returned" \/ ~connOpen \/ panicked))
        => ~termRaw

\* C21: once the read pump has received an ExitCode frame, it receives no
\* further frame (so none is written to standard output), and the session
\* eventually is closed: the done signal closed, the normal-closure frame
\* sent and the connection released (by Close, or by the end of the process).
ExitCodeClosesSession ==
    /\ [](\A i \in 1 .. Len(frames) : frames[i] => i = Len(frames))
    /\ ((\E i \in 1 .. Len(frames) : frames[i])
            ~> (done /\ closeFrames >= 1 /\ (~connOpen \/ ~Alive)))

\* C22: when the write pump meets end-of-input on standard input, or an error
\* writing a frame to the socket, the session is closed (the done signal is
\* closed) and the write pump terminates, without the process dying in the
\* pump's call of Close. (A process that died before that call had passed
\* its select is not counted against the pump.)
WritePumpErrorClosesSession ==
    (pc["main"] = "close_select")
        ~> \/ done /\ "write" \notin running /\ ~panicked
           \/ panicked /\ pc["main"] = "close_select"

\* C26: every data frame passed to WriteMessage (an input frame of the write
\* pump, a size frame of Run or of the resize watcher) carries a sequence
\* number strictly above that of the frame passed before it.
SequenceNumbersIncrease ==
    [][(\/ \E t \in Sizers : pc[t] = "ss_write" /\ pc'[t] # "ss_write"
        \/ pc["main"] = "wl_write" /\ pc'["main"] # "wl_write")
          => seqNum > sent]_vars

MaxRate == 3
MaxSrc == 4
BufLen == 2

\* time.Sleep(10 * time.Millisecond)
SleepMs == 10

\* Scheduling delays in milliseconds: none, a short one, a pause of a second,
\* a pause of three seconds (a stalled peer).
Delays == {0, 1, 1000, 3000}

\* The int64 values of the adapters are of the form k * 2^52 + l with l small;
\* the model writes such a value as k * 2^20 + l, which keeps sums, differences
\* and order, and turns 2^63 into 2^31.
MaxInt64 == (1024 * 1048576 - 1) + 1024 * 1048576

MinInt64 == (-MaxInt64) - 1

\* A very large rate: 1000 * 2^52 bytes per second ("4194304000G"), written
\* 1000 * 2^20.
HugeRate == 1048576000

Limits == ((-1) .. MaxRate) \cup {HugeRate}

Min(a, b) == IF a < b THEN a ELSE b

\* The bytes of a source of length n: all different, so that a lost, repeated
\* or reordered byte shows.
Bytes(n) == [i \in 1 .. n |-> i]

SubSeqFrom(q, from, n) == [i \in 1 .. n |-> q[from + i]]

\* NewThrottledReader / NewThrottledWriter: a non-positive limit returns the
\* stream itself, a positive one a wrapper that starts with a full bucket.
\* The field given keeps the limit the constructor was called with; throttled
\* tells whether what it returned is a wrapper.
NewThrottledAlways(bytesPerSec) ==
    [throttled |-> TRUE, bytesPerSec |-> bytesPerSec, bucket |-> bytesPerSec,
     lastTime |-> 0, given |-> bytesPerSec]

NewThrottled(bytesPerSec) ==
    IF bytesPerSec <= 0
        THEN [throttled |-> FALSE, bytesPerSec |-> 0, bucket |-> 0, lastTime |-> 0,
              given |-> bytesPerSec]
        ELSE [throttled |-> TRUE, bytesPerSec |-> bytesPerSec, bucket |-> bytesPerSec,
              lastTime |-> 0, given |-> bytesPerSec]

\* int64(elapsed * float64(t.bytesPerSec)), elapsed in seconds: the integer
\* part of the product; when that is 2^63 or more the conversion gives what
\* the processor gives, the smallest int64 (amd64) or the largest (arm64).
RefillTokens(elapsedMs, bytesPerSec) ==
    LET whole == elapsedMs * (bytesPerSec \div 1000)
        part == (elapsedMs * (bytesPerSec % 1000)) \div 1000
    IN IF elapsedMs > 0 /\ bytesPerSec \div 1000 > (MaxInt64 - part) \div elapsedMs
          THEN {MinInt64, MaxInt64}
          ELSE {whole + part}

\* t.bucket += tokens, in int64 arithmetic (tokens >= 0 wraps past the
\* largest int64).
AddInt64(a, tokens) ==
    IF tokens > 0 /\ a > MaxInt64 - tokens
        THEN (a - MaxInt64 - 1) + (tokens - MaxInt64 - 1)
        ELSE a + tokens

\* The values the bucket can have after the refill at the start of an
\* operation, clamped to the capacity.
Refill(t, elapsedMs) ==
    {Min(AddInt64(t.bucket, tokens), t.bytesPerSec) :
        tokens \in RefillTokens(elapsedMs, t.bytesPerSec)}

\* The elapsed time a call measures.
Elapsed(slept, d) == (IF slept THEN SleepMs ELSE 0) + d

\* t.lastTime = now. The clock is kept modulo ClockMod: only the elapsed
\* times enter the computation.
ClockMod == 4

Now(t, elapsedMs) == (t.lastTime + elapsedMs) % ClockMod

\* A reader over a source, about to be read to io.EOF.
ReaderInit ==
    /\ \E l \in Limits : rd = NewThrottled(l)
    /\ rSlept = FALSE
    /\ \E n \in 0 .. MaxSrc : src = Bytes(n)
    /\ rPos = 0
    /\ rOut = <<>>
    /\ rPc = "read"

ReaderIdle ==
    /\ rd = NewThrottled(0)
    /\ rSlept = FALSE
    /\ src = <<>>
    /\ rPos = 0
    /\ rOut = <<>>
    /\ rPc = "off"

\* A writer, and a buffer p about to be passed to Write.
WriterInit ==
    /\ \E l \in Limits : wr = NewThrottled(l)
    /\ wSlept = FALSE
    /\ \E n \in 0 .. MaxSrc : wBuf = Bytes(n)
    /\ written = 0
    /\ wOut = <<>>
    /\ wPc = "loop"

WriterIdle ==
    /\ wr = NewThrottled(0)
    /\ wSlept = FALSE
    /\ wBuf = <<>>
    /\ written = 0
    /\ wOut = <<>>
    /\ wPc = "off"

ThrottleInit ==
    \/ ReaderInit /\ WriterIdle
    \/ WriterInit /\ ReaderIdle

ThrottleIdle == ReaderIdle /\ WriterIdle

\* One Read of the wrapped source with a buffer of length n > 0: io.EOF at the
\* end of the source, else between 1 and n of the bytes that remain.
SourceRead(n) ==
    IF rPos = Len(src)
        THEN /\ rPc' = "done"
             /\ UNCHANGED <<rPos, rOut>>
        ELSE \E k \in 1 .. Min(n, Len(src) - rPos) :
                /\ rPos' = rPos + k
                /\ rOut' = rOut \o SubSeqFrom(src, rPos, k)
                /\ rPc' = rPc

\* One call of Read(p), len(p) = BufLen, by a loop that reads to io.EOF
\* (io.ReadAll), on the stream NewThrottledReader returned without a wrapper.
PlainRead ==
    /\ rPc = "read" /\ ~rd.throttled
    /\ SourceRead(BufLen)
    /\ UNCHANGED <<rd, rSlept, src, wr, wSlept, wBuf, written, wOut, wPc>>
    /\ UNCHANGED nonThrottle

\* One call of ThrottledReader.Read(p), len(p) = BufLen, by the same loop.
ThrottledRead ==
    /\ rPc = "read" /\ rd.throttled
    /\ \E d \in Delays : \E bucket \in Refill(rd, Elapsed(rSlept, d)) :
        LET toRead == Min(BufLen, bucket)
        IN IF toRead = 0
              THEN \* sleep 10 ms and return 0, nil
                   /\ rd' = [rd EXCEPT !.bucket = bucket,
                                        !.lastTime = Now(rd, Elapsed(rSlept, d))]
                   /\ rSlept' = TRUE
                   /\ UNCHANGED <<rPos, rOut, rPc>>
              ELSE IF toRead < 0
              THEN \* p[:toRead] with a negative bound: run-time panic
                   /\ rd' = [rd EXCEPT !.bucket = bucket,
                                        !.lastTime = Now(rd, Elapsed(rSlept, d))]
                   /\ rPc' = "panic"
                   /\ UNCHANGED <<rSlept, rPos, rOut>>
              ELSE /\ SourceRead(toRead)
                   /\ rd' = [rd EXCEPT !.bucket = bucket - (rPos' - rPos),
                                        !.lastTime = Now(rd, Elapsed(rSlept, d))]
                   /\ rSlept' = FALSE
    /\ UNCHANGED <<src, wr, wSlept, wBuf, written, wOut, wPc>>
    /\ UNCHANGED nonThrottle

\* Write(p) on the stream NewThrottledWriter returned without a wrapper: the
\* wrapped writer takes the whole buffer, or fails after part of it.
PlainWrite ==
    /\ wPc = "loop" /\ ~wr.throttled
    /\ \/ /\ wOut' = wOut \o wBuf
          /\ written' = Len(wBuf)
          /\ wPc' = "ok"
       \/ \E k \in 0 .. Len(wBuf) :
          /\ wOut' = wOut \o SubSeqFrom(wBuf, 0, k)
          /\ written' = k
          /\ wPc' = "err"
    /\ UNCHANGED <<rd, rSlept, src, rPos, rOut, rPc, wr, wSlept, wBuf>>
    /\ UNCHANGED nonThrottle

\* One iteration of the loop of ThrottledWriter.Write(p), or its return when
\* written = len(p).
ThrottledWrite ==
    /\ wPc = "loop" /\ wr.throttled
    /\ IF written >= Len(wBuf)
          THEN /\ wPc' = "ok"
               /\ UNCHANGED <<wr, wSlept, written, wOut>>
          ELSE \E d \in Delays : \E bucket \in Refill(wr, Elapsed(wSlept, d)) :
                LET toWrite == Min(Len(wBuf) - written, bucket)
                IN IF toWrite = 0
                      THEN \* sleep 10 ms and continue
                           /\ wr' = [wr EXCEPT !.bucket = bucket,
                                                !.lastTime = Now(wr, Elapsed(wSlept, d))]
                           /\ wSlept' = TRUE
                           /\ UNCHANGED <<written, wOut, wPc>>
                      ELSE IF toWrite < 0
                      THEN \* p[written:written+toWrite]: run-time panic
                           /\ wr' = [wr EXCEPT !.bucket = bucket,
                                                !.lastTime = Now(wr, Elapsed(wSlept, d))]
                           /\ wPc' = "panic"
                           /\ UNCHANGED <<wSlept, written, wOut>>
                      ELSE \/ \* the wrapped writer takes the chunk
                              /\ wOut' = wOut \o SubSeqFrom(wBuf, written, toWrite)
                              /\ written' = written + toWrite
                              /\ wr' = [wr EXCEPT !.bucket = bucket - toWrite,
                                                   !.lastTime = Now(wr, Elapsed(wSlept, d))]
                              /\ wSlept' = FALSE
                              /\ wPc' = wPc
                           \/ \* the wrapped writer fails after k bytes
                              \E k \in 0 .. toWrite :
                              /\ wOut' = wOut \o SubSeqFrom(wBuf, written, k)
                              /\ written' = written + k
                              /\ wr' = [wr EXCEPT !.bucket = bucket - k,
                                                   !.lastTime = Now(wr, Elapsed(wSlept, d))]
                              /\ wSlept' = FALSE
                              /\ wPc' = "err"
    /\ UNCHANGED <<rd, rSlept, src, rPos, rOut, rPc, wBuf>>
    /\ UNCHANGED nonThrottle

ThrottleNext ==
    \/ PlainRead
    \/ ThrottledRead
    \/ PlainWrite
    \/ ThrottledWrite


\* C4: reading a finite source to end-of-input through the reader that
\* NewThrottledReader returns for a positive limit eventually completes with
\* exactly the bytes of the source, in order; and writing a buffer through
\* the writer NewThrottledWriter returns eventually returns, having passed on
\* the whole buffer unless the wrapped writer failed.
ThrottledTransferCompletes ==
    /\ rPc = "read" => <>(rPc = "done" /\ rOut = src)
    /\ wPc = "loop" => <>(wPc = "err" \/ (wPc = "ok" /\ wOut = wBuf))

\* C19: a stream made by NewThrottledReader or NewThrottledWriter with a limit
\* that is zero or negative is the stream that was passed in, with no wrapper:
\* it never sleeps, and what has come out of it is what the wrapped stream
\* gave (took) so far. With a positive limit it is a wrapper of that rate.
WrapperOnlyForPositiveLimit ==
    /\ rPc # "off" =>
          IF rd.given <= 0
             THEN ~rd.throttled /\ ~rSlept /\ rOut = SubSeqFrom(src, 0, rPos)
             ELSE rd.throttled /\ rd.bytesPerSec = rd.given
    /\ wPc # "off" =>
          IF wr.given <= 0
             THEN ~wr.throttled /\ ~wSlept /\ wOut = SubSeqFrom(wBuf, 0, written)
             ELSE wr.throttled /\ wr.bytesPerSec = wr.given

\* C19 witness: a source read to the end through the stream NewThrottledReader
\* returned for a negative limit.
ReadThroughUnwrappedStream ==
    rPc = "done" /\ rd.given < 0 /\ ~rd.throttled /\ rPos > BufLen /\ rOut = src

\* C23: the bucket of a throttled reader and of a throttled writer holds
\* between 0 and the configured capacity, after every refill and every debit.
BucketWithinCapacity ==
    /\ rd.throttled => (0 <= rd.bucket /\ rd.bucket <= rd.bytesPerSec)
    /\ wr.throttled => (0 <= wr.bucket /\ wr.bucket <= wr.bytesPerSec)

\* C24: a Write of the throttled writer ends either with the whole buffer
\* passed on in order and len(p) returned, or with an error and the count of
\* the bytes passed on; it never ends otherwise, and no chunk exceeds the
\* tokens of the bucket (the debit leaves the bucket at 0 or more).
WriteAllOrError ==
    wr.throttled =>
        /\ wPc \in {"loop", "ok", "err"}
        /\ wPc = "ok" => (written = Len(wBuf) /\ wOut = wBuf)
        /\ wPc = "err" => (written = Len(wOut) /\ wOut = SubSeq(wBuf, 1, written))
        /\ wr.bucket >= 0

\* C25: a Read of the throttled reader that finds b tokens after the refill
\* returns 0, nil without reading the source when b = 0, and otherwise reads
\* at most min(len(p), b) bytes and debits the bucket by the bytes read.
ReadClampedToTokens ==
    [][(rd.throttled /\ rPc = "read") =>
          \E d \in Delays : \E b \in Refill(rd, Elapsed(rSlept, d)) :
              LET n == rPos' - rPos
              IN /\ 0 <= n /\ n <= Min(BufLen, b)
                 /\ rOut' = rOut \o SubSeq(src, rPos + 1, rPos + n)
                 /\ rd'.bucket = b - n
                 /\ rPc' \in {"read", "done"}
                 /\ b = 0 => rPc' = "read"]_vars

(***************************************************************************)
(* CopyWithContext: the cancellable copy loop.                             *)
(***************************************************************************)
\* Bounds of the copy model: the length of buf (32*1024 in the code, scaled)
\* and the largest source.
CopyBufLen == 2
MaxCopySrc == 5

CopyInit ==
    /\ ctxDone \in BOOLEAN
    /\ midCopy = FALSE
    /\ cSrcLen \in 0 .. MaxCopySrc
    /\ cPos = 0
    /\ cNr = 0
    /\ cRerr = "nil"
    /\ cWritten = 0
    /\ cDst = 0
    /\ cPc = "check"
    /\ cErr = "nil"

CopyIdle ==
    /\ ctxDone = FALSE
    /\ midCopy = FALSE
    /\ cSrcLen = 0
    /\ cPos = 0
    /\ cNr = 0
    /\ cRerr = "nil"
    /\ cWritten = 0
    /\ cDst = 0
    /\ cPc = "off"
    /\ cErr = "nil"

\* The caller cancels the context, or its deadline expires, during the copy.
Cancel ==
    /\ cPc \in {"check", "read", "write"} /\ ~ctxDone
    /\ ctxDone' = TRUE
    /\ midCopy' = TRUE
    /\ UNCHANGED <<cSrcLen, cPos, cNr, cRerr, cWritten, cDst, cPc, cErr>>
    /\ UNCHANGED nonCopy

\* select { case <-ctx.Done(): return written, ctx.Err(); default: }
CopyCheckIgnoresCtx(cancelled) == "read"

CopyCheckResult(cancelled) == IF cancelled THEN "ret" ELSE "read"

CopyCheck ==
    /\ cPc = "check"
    /\ cPc' = CopyCheckResult(ctxDone)
    /\ cErr' = IF cPc' = "ret" THEN "ctx" ELSE cErr
    /\ UNCHANGED <<ctxDone, midCopy, cSrcLen, cPos, cNr, cRerr, cWritten, cDst>>
    /\ UNCHANGED nonCopy

AfterReadSkipsCheck(rerr) ==
    IF rerr = "nil" THEN [pc |-> "read", err |-> "nil"]
    ELSE IF rerr = "EOF" THEN [pc |-> "ret", err |-> "nil"]
    ELSE [pc |-> "ret", err |-> "read"]

\* What the loop does with rerr once the bytes read are written.
AfterRead(rerr) ==
    IF rerr = "nil" THEN [pc |-> "check", err |-> "nil"]
    ELSE IF rerr = "EOF" THEN [pc |-> "ret", err |-> "nil"]
    ELSE [pc |-> "ret", err |-> "read"]

\* nr, rerr := src.Read(buf): up to len(buf) of the bytes that remain, with or
\* without io.EOF when they are the last; io.EOF at the end; a read that
\* returns nothing yet; or a failure.
CopyRead ==
    /\ cPc = "read"
    /\ \E k \in 0 .. Min(CopyBufLen, cSrcLen - cPos) :
       \E e \in {"nil", "EOF", "err"} :
          /\ e = "EOF" => cPos + k = cSrcLen
          /\ (e = "nil" /\ k = 0) => cPos < cSrcLen
          /\ cNr' = k
          /\ cRerr' = e
          /\ cPos' = cPos + k
          /\ IF k > 0
                THEN /\ cPc' = "write"
                     /\ cErr' = cErr
                ELSE /\ cPc' = AfterRead(e).pc
                     /\ cErr' = AfterRead(e).err
    /\ UNCHANGED <<ctxDone, midCopy, cSrcLen, cWritten, cDst>>
    /\ UNCHANGED nonCopy

\* if nw > 0 { written += int64(nw) }
WrittenAfter(w, nw) == IF nw > 0 THEN w + nw ELSE w

\* nw, werr := dst.Write(buf[:nr]): all of it, a failure after nw bytes, or a
\* short write without an error.
CopyWrite ==
    /\ cPc = "write"
    /\ \E nw \in 0 .. cNr :
       \E werr \in BOOLEAN :
          /\ cDst' = cDst + nw
          /\ cWritten' = WrittenAfter(cWritten, nw)
          /\ IF werr
                THEN cPc' = "ret" /\ cErr' = "write"
                ELSE IF nw # cNr
                        THEN cPc' = "ret" /\ cErr' = "short"
                        ELSE /\ cPc' = AfterRead(cRerr).pc
                             /\ cErr' = AfterRead(cRerr).err
    /\ UNCHANGED <<ctxDone, midCopy, cSrcLen, cPos, cNr, cRerr>>
    /\ UNCHANGED nonCopy

CopyNext ==
    \/ Cancel
    \/ CopyCheck
    \/ CopyRead
    \/ CopyWrite

\* C7 (as claimed): when the context is cancelled during the copy of a source
\* larger than one chunk, the copy returns a cancellation-kind error and a
\* count of bytes strictly less than the source size (copies that end on an
\* I/O error of the source or the destination set aside).
CancelMidCopyReportsLess ==
    (cPc = "ret" /\ midCopy /\ cSrcLen > CopyBufLen /\ cErr \in {"nil", "ctx"})
        => (cErr = "ctx" /\ cWritten < cSrcLen)

\* C7 (amended): when the copy finds the context cancelled at its check before
\* a read, it returns at once with a cancellation-kind error and the count of
\* the bytes written so far, all of them in the destination; the count never
\* exceeds the source size and is strictly less than it whenever part of the
\* source is still unread.
CancelObservedReportsWritten ==
    [][(cPc = "check" /\ ctxDone) =>
          /\ cPc' = "ret" /\ cErr' = "ctx"
          /\ cWritten' = cWritten /\ cWritten' = cDst' /\ cWritten' = cPos
          /\ cWritten' <= cSrcLen
          /\ (cPos < cSrcLen => cWritten' < cSrcLen)]_vars

\* C7 witness: a source larger than one chunk, a cancellation during the
\* copy, and the copy returning the cancellation error with the whole source
\* written.
CancelAfterLastChunk ==
    /\ cPc = "ret" /\ cErr = "ctx" /\ midCopy
    /\ cSrcLen > CopyBufLen /\ cWritten = cSrcLen

\* C13: CopyWithContext checks the context before every read. Called with a
\* context already cancelled it returns the context's error with nothing read
\* and nothing written; a read is only ever started from a check that found
\* the context live, so none is started after a check that follows the
\* cancellation; the destination never loses bytes, and on the cancellation
\* return it holds the bytes counted.
CopyChecksBeforeEveryRead ==
    /\ []((ctxDone /\ ~midCopy /\ cPc \in {"read", "write", "ret"}) =>
            (cPc = "ret" /\ cErr = "ctx" /\ cPos = 0 /\ cDst = 0 /\ cWritten = 0))
    /\ []((cPc = "ret" /\ cErr = "ctx") => cDst = cWritten)
    /\ [][/\ (cPc # "read" /\ cPc' = "read") => (cPc = "check" /\ ~ctxDone)
          /\ cPos' # cPos => cPc = "read"
          /\ cDst' >= cDst]_vars

\* C13 witness: a copy cancelled after part of the source was written has
\* returned the cancellation error, the part written still in the
\* destination and the rest unread.
CancelledWithPartWritten ==
    /\ cPc = "ret" /\ cErr = "ctx" /\ midCopy
    /\ cDst > 0 /\ cDst = cWritten /\ cPos < cSrcLen

(***************************************************************************)
(* Transfer orchestrator: Download, downloadFile, downloadDirectory,       *)
(* Upload, uploadFile, uploadDirectory.                                    *)
(* A path is a tree: a file, or a directory with its entries in listing    *)
(* order. A child is named by its position: <<2, 1>> is the first entry of *)
(* the second top-level path. A failure is named by the child that failed. *)
(***************************************************************************)
\* Bounds of the transfer model: entries per directory, top-level local paths
\* of an upload, and bytes per file.
MaxKids == 2
MaxPaths == 2
MaxFileSize == 1

File == [dir |-> FALSE, kids |-> <<>>]

DirOf(ks) == [dir |-> TRUE, kids |-> ks]

SeqsUpTo(S, n) == UNION {[1 .. k -> S] : k \in 0 .. n}

\* A file, or a directory of files.
Level1 == {File} \cup {DirOf(ks) : ks \in SeqsUpTo({File}, MaxKids)}

\* A file, or a directory of files and of directories of files.
Trees == {File} \cup {DirOf(ks) : ks \in SeqsUpTo(Level1, MaxKids)}

\* What a call is given: one remote path, or one or more local paths.
Tops(d) ==
    IF d = "download"
        THEN {<<t>> : t \in Trees}
        ELSE {<<t>> : t \in Trees} \cup
             {ts \in SeqsUpTo(Level1, MaxPaths) : Len(ts) >= 2}

NoErr == <<>>

\* &TransferResult{}, and the nil result of an early return.
EmptyResult == [nil |-> FALSE, files |-> 0, bytes |-> 0, errors |-> <<>>]

NilResult == [nil |-> TRUE, files |-> 0, bytes |-> 0, errors |-> <<>>]

TransferInit ==
    /\ opts \in [recursive : BOOLEAN, force : BOOLEAN, dryRun : BOOLEAN]
    /\ direction \in {"download", "upload"}
    /\ tops \in Tops(direction)
    /\ stack = <<>>
    /\ result = EmptyResult
    /\ retErr = NoErr
    /\ tPc = "start"
    /\ attempts = <<>>
    /\ failLog = <<>>
    /\ described = 0
    /\ localExists \in (IF direction = "download" THEN BOOLEAN ELSE {FALSE})
    /\ effects = {}

TransferIdle ==
    /\ opts = [recursive |-> FALSE, force |-> FALSE, dryRun |-> FALSE]
    /\ direction = "download"
    /\ tops = <<File>>
    /\ stack = <<>>
    /\ result = EmptyResult
    /\ retErr = NoErr
    /\ tPc = "off"
    /\ attempts = <<>>
    /\ failLog = <<>>
    /\ described = 0
    /\ localExists = FALSE
    /\ effects = {}

Top == stack[Len(stack)]

\* The stack with the loop of its topmost call moved to the next entry.
Advance(st) == [st EXCEPT ![Len(st)].i = st[Len(st)].i + 1]

Pop(st) == SubSeq(st, 1, Len(st) - 1)

\* The loop of a directory call meets a failing child: under Force the error
\* is appended to result.Errors and the loop continues, else the call returns
\* the error, and so does every caller up to Download / Upload. The loop of
\* Upload over its local paths returns the error whatever Force is.
ContinuesNever(frame) == FALSE

ContinuesAlways(frame) == ~frame.top

ContinuesOnError(frame) == opts.force /\ ~frame.top

ChildFailed(st, e) ==
    /\ failLog' = Append(failLog, e)
    /\ IF ContinuesOnError(st[Len(st)])
          THEN /\ result' = [result EXCEPT !.errors = Append(@, e)]
               /\ stack' = Advance(st)
               /\ UNCHANGED <<retErr, tPc>>
          ELSE /\ retErr' = e
               /\ tPc' = "ret"
               /\ stack' = <<>>
               /\ result' = result

\* result.FilesTransferred++; result.BytesTransferred += n
Count(r, n) == [r EXCEPT !.files = @ + 1, !.bytes = @ + n]

\* The steps of downloadFile after the dry-run and overwrite tests that change
\* something or ask the device for content, in order: MkdirAll of the parent,
\* the request of client.DownloadFile, os.Create (which truncates a file that
\* exists), the copy. Those of uploadFile: the request of client.UploadFile,
\* and the file it leaves on the device.
Stages(d) ==
    IF d = "download"
        THEN <<"mkdirLocal", "downloadRequest",
               IF localExists THEN "truncateLocal" ELSE "createLocal", "writeLocal">>
        ELSE <<"uploadRequest", "uploadRemote">>

\* The effects of the first k of them.
EffectsUpTo(d, k) == {Stages(d)[n] : n \in 1 .. k}

RefusesNever(force, exists) == FALSE

\* if !opts.Force { if _, err := os.Stat(localPath); err == nil { return ... } }
RefusesOverwrite(force, exists) == ~force /\ exists

\* downloadFile / uploadFile on the child at path p: a dry run prints the
\* line and returns nil; else the transfer fails, or moves n bytes and is
\* counted. A download refuses a destination that exists unless Force is set;
\* any later step can fail, the effects of the steps before it made.
FileStep(p) ==
    IF opts.dryRun
        THEN /\ described' = described + 1
             /\ stack' = Advance(stack)
             /\ UNCHANGED <<result, retErr, tPc, failLog, effects>>
        ELSE /\ described' = described
             /\ IF direction = "download" /\ RefusesOverwrite(opts.force, localExists)
                   THEN /\ ChildFailed(stack, p)
                        /\ effects' = effects
                   ELSE \/ \E k \in 0 .. Len(Stages(direction)) - 1 :
                             /\ ChildFailed(stack, p)
                             /\ effects' = effects \cup EffectsUpTo(direction, k)
                        \/ \E n \in 0 .. MaxFileSize :
                             /\ result' = Count(result, n)
                             /\ stack' = Advance(stack)
                             /\ effects' = effects \cup
                                   EffectsUpTo(direction, Len(Stages(direction)))
                             /\ UNCHANGED <<retErr, tPc, failLog>>

\* Download: CheckDeviceOnline and StatFile; Upload: CheckDeviceOnline. A
\* failure returns it (Download returns no result then).
TransferStart ==
    /\ tPc = "start"
    /\ \/ /\ tPc' = "ret"
          /\ retErr' = <<0>>
          /\ result' = NilResult
          /\ stack' = stack
       \/ /\ tPc' = "run"
          /\ retErr' = retErr
          /\ result' = EmptyResult
          /\ stack' = <<[top |-> TRUE, kids |-> tops, i |-> 1, path |-> <<>>,
                         entered |-> TRUE]>>
    /\ UNCHANGED <<opts, direction, tops, localExists, attempts, failLog, described, effects>>
    /\ UNCHANGED nonTransfer

\* One path of the top-level call: the dispatch of Download, or one iteration
\* of Upload's loop over localPaths (os.Stat, the directory check, the
\* dispatch).
TopStep ==
    /\ tPc = "run" /\ Top.top /\ Top.i <= Len(Top.kids)
    /\ LET c == Top.kids[Top.i]
           p == <<Top.i>>
       IN /\ attempts' = Append(attempts, p)
          /\ \/ \* Download of a directory without Recursive: no result
                /\ direction = "download" /\ c.dir /\ ~opts.recursive
                /\ failLog' = Append(failLog, p)
                /\ retErr' = p
                /\ tPc' = "ret"
                /\ stack' = <<>>
                /\ result' = NilResult
                /\ UNCHANGED <<described, effects>>
             \/ \* Upload: os.Stat fails, or a directory without Recursive
                /\ direction = "upload"
                /\ ChildFailed(stack, p)
                /\ UNCHANGED <<described, effects>>
             \/ /\ c.dir /\ opts.recursive
                /\ stack' = Append(stack, [top |-> FALSE, kids |-> c.kids,
                                           i |-> 1, path |-> p,
                                           entered |-> FALSE])
                /\ UNCHANGED <<result, retErr, tPc, failLog, described, effects>>
             \/ /\ ~c.dir
                /\ FileStep(p)
    /\ UNCHANGED <<opts, direction, tops, localExists>>
    /\ UNCHANGED nonTransfer

\* Every path is done: Download / Upload returns the result and nil.
TopReturn ==
    /\ tPc = "run" /\ Top.top /\ Top.i > Len(Top.kids)
    /\ tPc' = "ret"
    /\ stack' = <<>>
    /\ UNCHANGED <<opts, direction, tops, localExists, result, retErr, attempts, failLog, described, effects>>
    /\ UNCHANGED nonTransfer

\* What the head of a directory call leaves behind when it succeeds and when
\* it fails. downloadDirectory: ListFiles, then MkdirAll unless a dry run.
\* uploadDirectory: MkdirOnDevice unless a dry run (an error that says
\* "exists" is passed over), then ReadDir.
DirEffectsAlways(d, dryRun, ok) ==
    IF d = "download" THEN {{"mkdirLocal"}} ELSE {{"mkdirRemote"}}

DirEffects(d, dryRun, ok) ==
    IF dryRun THEN {{}}
    ELSE IF d = "download" THEN (IF ok THEN {{"mkdirLocal"}} ELSE {{}})
    ELSE {{}, {"mkdirRemote"}}

\* The head of downloadDirectory (ListFiles, MkdirAll unless a dry run) or of
\* uploadDirectory (MkdirOnDevice unless a dry run, ReadDir): a failure
\* returns to the caller's loop.
DirEnter ==
    /\ tPc = "run" /\ ~Top.top /\ ~Top.entered
    /\ \/ /\ stack' = [stack EXCEPT ![Len(stack)].entered = TRUE]
          /\ \E e \in DirEffects(direction, opts.dryRun, TRUE) :
                effects' = effects \cup e
          /\ UNCHANGED <<result, retErr, tPc, failLog>>
       \/ /\ ChildFailed(Pop(stack), Top.path)
          /\ \E e \in DirEffects(direction, opts.dryRun, FALSE) :
                effects' = effects \cup e
    /\ UNCHANGED <<opts, direction, tops, localExists, attempts, described>>
    /\ UNCHANGED nonTransfer

\* One iteration of the loop over the entries of a directory.
DirStep ==
    /\ tPc = "run" /\ ~Top.top /\ Top.entered /\ Top.i <= Len(Top.kids)
    /\ LET c == Top.kids[Top.i]
           p == Append(Top.path, Top.i)
       IN /\ attempts' = Append(attempts, p)
          /\ \/ /\ c.dir
                /\ stack' = Append(stack, [top |-> FALSE, kids |-> c.kids,
                                           i |-> 1, path |-> p,
                                           entered |-> FALSE])
                /\ UNCHANGED <<result, retErr, tPc, failLog, described, effects>>
             \/ \* uploadDirectory: entry.Info() fails
                /\ ~c.dir /\ direction = "upload"
                /\ ChildFailed(stack, p)
                /\ UNCHANGED <<described, effects>>
             \/ /\ ~c.dir
                /\ FileStep(p)
    /\ UNCHANGED <<opts, direction, tops, localExists>>
    /\ UNCHANGED nonTransfer

\* The loop is over: the directory call returns nil to its caller's loop.
DirLeave ==
    /\ tPc = "run" /\ ~Top.top /\ Top.entered /\ Top.i > Len(Top.kids)
    /\ stack' = Advance(Pop(stack))
    /\ UNCHANGED <<opts, direction, tops, localExists, result, retErr, tPc, attempts, failLog,
                   described, effects>>
    /\ UNCHANGED nonTransfer

TransferNext ==
    \/ TransferStart
    \/ TopStep
    \/ TopReturn
    \/ DirEnter
    \/ DirStep
    \/ DirLeave

(***************************************************************************)
(* Claims about the transfer orchestrator.                                 *)
(***************************************************************************)
RECURSIVE NodeAt(_, _)
\* The tree at path p below the entries ks.
NodeAt(ks, p) ==
    IF Len(p) = 1 THEN ks[p[1]] ELSE NodeAt(ks[p[1]].kids, Tail(p))

Range(q) == {q[k] : k \in 1 .. Len(q)}

\* The failures of children of directories, in order (a path of length 1 is
\* a path handed to Download / Upload, not a child).
ChildFailures == SelectSeq(failLog, LAMBDA p : Len(p) >= 2)

\* The directories whose loop over the entries ran.
LoopedDirs ==
    {p \in Range(attempts) : NodeAt(tops, p).dir /\ p \notin Range(failLog)}

\* C5: in a recursive Download or Upload where a child of a directory fails:
\* under Force every such failure is in result.Errors, in order, and every
\* entry of every directory whose loop ran was processed; without Force the
\* first failing child is the only failure, it is the last child whose
\* processing was started, and its failure is the error the call returns.
ForceContinuesElseAborts ==
    (tPc = "ret" /\ opts.recursive /\ ~result.nil) =>
        IF opts.force
            THEN /\ result.errors = ChildFailures
                 /\ \A p \in LoopedDirs :
                       \A k \in 1 .. Len(NodeAt(tops, p).kids) :
                           Append(p, k) \in Range(attempts)
            ELSE /\ result.errors = <<>>
                 /\ ChildFailures # <<>> =>
                       /\ Len(failLog) = 1
                       /\ attempts[Len(attempts)] = failLog[1]
                       /\ retErr = failLog[1]

\* C5 witness: a Force run returned in which a child failed and its next
\* sibling was processed and transferred.
ForceRunPassedAFailure ==
    /\ tPc = "ret" /\ opts.force /\ opts.recursive
    /\ result.files > 0
    /\ \E k \in 1 .. Len(result.errors) :
          LET p == result.errors[k]
          IN Append(SubSeq(p, 1, Len(p) - 1), p[Len(p)] + 1) \in Range(attempts)

\* C14: in a dry run no Download or Upload call creates or truncates a local
\* file or directory, creates a remote directory, or downloads or uploads
\* file content, at any point of the call.
DryRunMutatesNothing ==
    opts.dryRun => effects = {}

\* C14 witness: a recursive dry run went into a directory, described a file
\* and returned.
DryRunWentThroughDirectory ==
    /\ tPc = "ret" /\ opts.dryRun /\ retErr = NoErr
    /\ described > 0
    /\ \E k \in 1 .. Len(attempts) : Len(attempts[k]) >= 2

\* A call for a single file whose local destination exists, Force unset.
SingleFileOntoExisting ==
    /\ direction = "download" /\ tops = <<File>>
    /\ localExists /\ ~opts.force

\* C15 (as claimed): with Force unset a single-file download onto a local
\* destination that exists returns an error and has issued no download
\* request and changed nothing; a local file that exists is truncated only
\* under Force.
ExistingFileRefused ==
    /\ (tPc = "ret" /\ SingleFileOntoExisting) => (retErr # NoErr /\ effects = {})
    /\ "truncateLocal" \in effects => opts.force

\* C15 (amended): the same outside dry-run mode; in a dry run the call
\* returns nil, and has still issued no request and changed nothing.
ExistingFileRefusedUnlessDryRun ==
    /\ (tPc = "ret" /\ SingleFileOntoExisting) =>
          /\ effects = {}
          /\ result.nil \/ result.files = 0
          /\ IF opts.dryRun /\ ~result.nil
                THEN retErr = NoErr
                ELSE retErr # NoErr
    /\ "truncateLocal" \in effects => opts.force

\* C15 witness: such a download, not a dry run, returned the refusal.
RefusedExistingFile ==
    /\ tPc = "ret" /\ SingleFileOntoExisting /\ ~opts.dryRun
    /\ retErr = <<1>> /\ effects = {}

\* C16: at every point of a Download or Upload call a non-empty
\* result.Errors implies Force; without Force the first failure ends the call
\* and is the error it returns; under Force result.Errors holds the failures
\* of the children, in the order they occurred.
ErrorsOnlyUnderForce ==
    /\ result.errors # <<>> => opts.force
    /\ (~opts.force /\ failLog # <<>>) =>
          (tPc = "ret" /\ Len(failLog) = 1 /\ retErr = failLog[1])
    /\ opts.force => result.errors = ChildFailures

\* C16 witness: a Force run recorded two failures, in order.
ForceRunRecordedTwo ==
    /\ tPc = "ret" /\ opts.force
    /\ Len(result.errors) >= 2
    /\ result.errors = ChildFailures

\* C6: after a dry-run Download or Upload returned, BytesTransferred is 0
\* and FilesTransferred is the number of files the call went through, which
\* is what it would have transferred.
DryRunCountsFiles ==
    (tPc = "ret" /\ opts.dryRun /\ ~result.nil) =>
        /\ result.bytes = 0
        /\ result.files = described

(***************************************************************************)
(* Codec: BuildMessage, ParseMessage, trimNullBytes.                       *)
(* A byte is 0 .. 255 and a message a sequence of bytes. A 64-bit integer  *)
(* is kept as four 16-bit limbs, most significant first, so that no value  *)
(* leaves the checker's integers: an int64 has its first limb in           *)
(* -32768 .. 32767, a uint64 in 0 .. 65535. A 32-bit unsigned integer is   *)
(* two such limbs.                                                         *)
(***************************************************************************)
HeaderLength == 120
MessageTypeLength == 32
MessageIDLength == 16
PayloadDigestLength == 32
SchemaVersion == 1

\* Bound of the codec model: the longest payload.
MaxPayload == 2

\* "output_stream_data"
MessageTypeOutputStream ==
    <<111, 117, 116, 112, 117, 116, 95, 115, 116, 114, 101, 97, 109, 95, 100,
      97, 116, 97>>

\* Output, Error, Size, Parameter, HandshakeRequest, HandshakeResp,
\* HandshakeComplete, ExitCode
PayloadTypes == {1, 2, 3, 4, 5, 6, 7, 12}

\* Message types: the protocol's, the empty one, and one that fills the field.
MessageTypes ==
    {MessageTypeOutputStream, <<>>, [k \in 1 .. MessageTypeLength |-> 64 + k]}

PayloadBytes == {0, 1, 255}

Payloads == UNION {[1 .. n -> PayloadBytes] : n \in 0 .. MaxPayload}

\* int64 values: 0, 1, 256, 2^32, the largest, -1, -2^16, the smallest.
SeqNums ==
    {<<0, 0, 0, 0>>, <<0, 0, 0, 1>>, <<0, 0, 0, 256>>, <<0, 1, 0, 0>>,
     <<32767, 65535, 65535, 65535>>, <<-1, 65535, 65535, 65535>>,
     <<-1, 65535, 65535, 0>>, <<-32768, 0, 0, 0>>}

\* time.Now().UnixMilli(): two instants of 2023.
Times == {<<0, 395, 53221, 26624>>, <<0, 395, 53221, 26625>>}

\* rand.Read: two of the ids it can draw.
MessageIDs ==
    {[k \in 1 .. MessageIDLength |-> 0], [k \in 1 .. MessageIDLength |-> 16 * k - 1]}

\* uint64(v) of an int64 and int64(u) of a uint64: two's complement.
Uint64Of(v) == <<v[1] % 65536, v[2], v[3], v[4]>>

Int64Of(u) == <<IF u[1] >= 32768 THEN u[1] - 65536 ELSE u[1], u[2], u[3], u[4]>>

\* uint32(n) of an int, and int(u) of a uint32 (below 2^31).
Uint32Of(n) == <<(n \div 65536) % 65536, n % 65536>>

IntOf(u) == u[1] * 65536 + u[2]

\* The big-endian bytes of 16-bit limbs, and the limbs of big-endian bytes.
LimbBytes(ls) ==
    [k \in 1 .. 2 * Len(ls) |->
        IF k % 2 = 1 THEN ls[(k + 1) \div 2] \div 256 ELSE ls[k \div 2] % 256]

BytesLimbs(bs) ==
    [k \in 1 .. Len(bs) \div 2 |-> bs[2 * k - 1] * 256 + bs[2 * k]]

\* copy(buf[offset:offset+limit], bytes)
CopyInto(buf, offset, limit, bytes) ==
    [k \in 1 .. Len(buf) |->
        IF k > offset /\ k <= offset + Min(limit, Len(bytes))
            THEN bytes[k - offset]
            ELSE buf[k]]

\* data[offset:offset+n]
Slice(data, offset, n) == [k \in 1 .. n |-> data[offset + k]]

\* sha256.Sum256(payload), abstracted: 32 bytes that depend on the payload.
Sum256(payload) ==
    [k \in 1 .. PayloadDigestLength |->
        (Len(payload) + 7 * k + (IF Len(payload) > 0 THEN payload[1] ELSE 0)) % 256]

keepNullBytes(b) == b

trimNullBytes(b) ==
    LET zs == {i \in 1 .. Len(b) : b[i] = 0}
    IN IF zs = {} THEN b
       ELSE SubSeq(b, 1, (CHOOSE i \in zs : \A j \in zs : i <= j) - 1)

BuildMessage(messageType, payloadType, payload, sequenceNumber, now, id) ==
    LET b0 == [k \in 1 .. HeaderLength + Len(payload) |-> 0]
        b1 == CopyInto(b0, 0, 4, LimbBytes(Uint32Of(HeaderLength)))
        b2 == CopyInto(b1, 4, MessageTypeLength, messageType)
        b3 == CopyInto(b2, 36, 4, LimbBytes(Uint32Of(SchemaVersion)))
        b4 == CopyInto(b3, 40, 8, LimbBytes(Uint64Of(now)))
        b5 == CopyInto(b4, 48, 8, LimbBytes(Uint64Of(sequenceNumber)))
        b6 == CopyInto(b5, 56, 8, LimbBytes(<<0, 0, 0, 0>>))
        b7 == CopyInto(b6, 64, MessageIDLength, id)
        b8 == CopyInto(b7, 80, PayloadDigestLength, Sum256(payload))
        b9 == CopyInto(b8, 112, 4, LimbBytes(Uint32Of(payloadType)))
        b10 == CopyInto(b9, 116, 4, LimbBytes(Uint32Of(Len(payload))))
    IN CopyInto(b10, 120, Len(payload), payload)

NoMessage == [nil |-> TRUE]

ParseMessageRejectsOverdeclared(data) ==
    IF Len(data) < HeaderLength
        THEN [msg |-> NoMessage, err |-> "message too short"]
        ELSE LET payloadLength == IntOf(BytesLimbs(Slice(data, 116, 4)))
             IN IF Len(data) < 120 + payloadLength
                   THEN [msg |-> NoMessage, err |-> "payload too short"]
                   ELSE [msg |-> [nil |-> FALSE,
                                  PayloadLength |-> payloadLength,
                                  Payload |-> Slice(data, 120, payloadLength)],
                         err |-> "nil"]

ParseMessage(data) ==
    IF Len(data) < HeaderLength
        THEN [msg |-> NoMessage, err |-> "message too short"]
        ELSE LET payloadLength == IntOf(BytesLimbs(Slice(data, 116, 4)))
             IN [msg |->
                   [nil |-> FALSE,
                    HeaderLength |-> IntOf(BytesLimbs(Slice(data, 0, 4))),
                    MessageType |-> trimNullBytes(Slice(data, 4, MessageTypeLength)),
                    SchemaVersion |-> IntOf(BytesLimbs(Slice(data, 36, 4))),
                    CreatedDate |-> Int64Of(BytesLimbs(Slice(data, 40, 8))),
                    SequenceNumber |-> Int64Of(BytesLimbs(Slice(data, 48, 8))),
                    Flags |-> Int64Of(BytesLimbs(Slice(data, 56, 8))),
                    MessageID |-> Slice(data, 64, MessageIDLength),
                    PayloadDigest |-> Slice(data, 80, PayloadDigestLength),
                    PayloadType |-> IntOf(BytesLimbs(Slice(data, 112, 4))),
                    PayloadLength |-> payloadLength,
                    Payload |-> IF Len(data) >= 120 + payloadLength
                                   THEN Slice(data, 120, payloadLength)
                                   ELSE <<>>],
                 err |-> "nil"]

CodecInit ==
    /\ mType \in MessageTypes
    /\ mPayloadType \in PayloadTypes
    /\ mPayload \in Payloads
    /\ mSeq \in SeqNums
    /\ wire = <<>>
    /\ parsed = [msg |-> NoMessage, err |-> "nil"]
    /\ kPc = "build"

CodecIdle ==
    /\ mType = <<>>
    /\ mPayloadType = 0
    /\ mPayload = <<>>
    /\ mSeq = <<0, 0, 0, 0>>
    /\ wire = <<>>
    /\ parsed = [msg |-> NoMessage, err |-> "nil"]
    /\ kPc = "off"

Build ==
    /\ kPc = "build"
    /\ \E now \in Times, id \in MessageIDs :
          wire' = BuildMessage(mType, mPayloadType, mPayload, mSeq, now, id)
    /\ kPc' = "parse"
    /\ UNCHANGED <<mType, mPayloadType, mPayload, mSeq, parsed>>
    /\ UNCHANGED nonCodec

Parse ==
    /\ kPc = "parse"
    /\ parsed' = ParseMessage(wire)
    /\ kPc' = "done"
    /\ UNCHANGED <<mType, mPayloadType, mPayload, mSeq, wire>>
    /\ UNCHANGED nonCodec

CodecNext ==
    \/ Build
    \/ Parse

\* C10: ParseMessage of what BuildMessage built succeeds and yields the
\* message type, payload type, sequence number and payload BuildMessage was
\* given, and the payload's length as PayloadLength.
CodecRoundTrip ==
    kPc = "done" =>
        /\ parsed.err = "nil"
        /\ ~parsed.msg.nil
        /\ parsed.msg.MessageType = mType
        /\ parsed.msg.PayloadType = mPayloadType
        /\ parsed.msg.SequenceNumber = mSeq
        /\ parsed.msg.Payload = mPayload
        /\ parsed.msg.PayloadLength = Len(mPayload)

\* C10 witness: a round trip of a negative sequence number, a payload with a
\* null byte and a message type that fills its field.
RoundTripOfHardMessage ==
    /\ kPc = "done"
    /\ mSeq[1] < 0
    /\ Len(mPayload) > 0 /\ mPayload[1] = 0
    /\ Len(mType) = MessageTypeLength
    /\ parsed.msg.SequenceNumber = mSeq
    /\ Len(wire) = HeaderLength + Len(mPayload)

(***************************************************************************)
(* ParseMessage on what arrives from the socket: any bytes, not only what  *)
(* BuildMessage built.                                                     *)
(***************************************************************************)
\* Messages as a peer builds them.
BuiltFrames ==
    {BuildMessage(t, pt, p, sn, <<0, 395, 53221, 26624>>,
                  [k \in 1 .. MessageIDLength |-> k]) :
        t \in MessageTypes, pt \in {1, 3, 12}, p \in Payloads,
        sn \in {<<0, 0, 0, 1>>, <<-1, 65535, 65535, 65535>>}}

\* The payload-length fields a frame can declare: 0, 1, one more than
\* MaxPayload, 2^16, and 0x7FFFFD00 (the int of the code is 64 bits wide on
\* every platform the program is built for, so the field never overflows it).
DeclaredLengths == {<<0, 0>>, <<0, 1>>, <<0, MaxPayload + 1>>, <<1, 0>>, <<32767, 64768>>}

\* The frame f with its payload-length field overwritten.
WithLength(f, u) == CopyInto(f, 116, 4, LimbBytes(u))

\* The first n bytes of f.
Truncated(f, n) == SubSeq(f, 1, Min(n, Len(f)))

CutLengths == {0, 1, HeaderLength - 1, HeaderLength, HeaderLength + 1}

\* What ReadMessage can deliver: built frames, whole or cut, with the length
\* field as built or overwritten, and runs of one byte value.
ReceivedFrames ==
    BuiltFrames
    \cup {WithLength(f, u) : f \in BuiltFrames, u \in DeclaredLengths}
    \cup {Truncated(f, n) : f \in BuiltFrames, n \in CutLengths}
    \cup {[k \in 1 .. n |-> b] : n \in CutLengths, b \in {0, 127}}

DecodeInit ==
    /\ mType = <<>>
    /\ mPayloadType = 0
    /\ mPayload = <<>>
    /\ mSeq = <<0, 0, 0, 0>>
    /\ wire = <<>>
    /\ parsed = [msg |-> NoMessage, err |-> "nil"]
    /\ kPc = "recv"

\* _, message, err := s.conn.ReadMessage()
Receive ==
    /\ kPc = "recv"
    /\ wire' \in ReceivedFrames
    /\ kPc' = "parse"
    /\ UNCHANGED <<mType, mPayloadType, mPayload, mSeq, parsed>>
    /\ UNCHANGED nonCodec

DecodeNext ==
    \/ Receive
    \/ Parse

UploadFileInit ==
    /\ uCtxDone = FALSE
    /\ uPosAtCancel = -1
    /\ uPc = "read"
    /\ uErr = "nil"
    /\ uSize \in 0 .. MaxSrc
    /\ uResult = [files |-> 0, bytes |-> 0]

UploadFileIdle ==
    /\ uCtxDone = FALSE
    /\ uPosAtCancel = -1
    /\ uPc = "off"
    /\ uErr = "nil"
    /\ uSize = 0
    /\ uResult = [files |-> 0, bytes |-> 0]

\* The context is cancelled, or its deadline expires, while io.ReadAll runs.
UploadCancel ==
    /\ uPc = "read" /\ rPc = "read" /\ ~uCtxDone
    /\ uCtxDone' = TRUE
    /\ uPosAtCancel' = rPos
    /\ UNCHANGED <<uPc, uErr, uSize, uResult>>
    /\ UNCHANGED nonUpload

\* The request of client.UploadFile under a context: the context's error when
\* it is done, else success or a failure of the request.
UploadRequest(cancelled) == IF cancelled THEN {"ctx"} ELSE {"nil", "http"}

\* io.ReadAll returned content: client.UploadFile(ctx, ..., len(content)) and
\* the return; after a request that succeeded, result.FilesTransferred++ and
\* result.BytesTransferred += size.
UploadSend ==
    /\ uPc = "read" /\ rPc = "done"
    /\ uErr' \in UploadRequest(uCtxDone)
    /\ uResult' = IF uErr' = "nil" THEN Count(uResult, uSize) ELSE uResult
    /\ uPc' = "ret"
    /\ UNCHANGED <<uCtxDone, uPosAtCancel, uSize>>
    /\ UNCHANGED nonUpload

UploadFileNext ==
    \/ PlainRead
    \/ ThrottledRead
    \/ UploadCancel
    \/ UploadSend

\* C12: once the context is cancelled while uploadFile reads the local file,
\* at most the chunk in progress is still read, and uploadFile returns a
\* cancellation-kind error with the rest of the file unread.
UploadReadStopsOnCancel ==
    uPosAtCancel >= 0 =>
        /\ rPos <= uPosAtCancel + BufLen
        /\ uPc = "ret" =>
              /\ uErr = "ctx"
              /\ uPosAtCancel + BufLen < Len(src) => rPos < Len(src)

\* C28: after uploadFile returned from a transfer that is not a dry run, the
\* file is counted exactly when the transfer succeeded, and BytesTransferred
\* is then the number of bytes sent to the device: a failed file adds to
\* neither counter.
BytesTransferredAreBytesSent ==
    uPc = "ret" =>
        IF uErr = "nil"
            THEN uResult.files = 1 /\ uResult.bytes = Len(rOut)
            ELSE uResult.files = 0 /\ uResult.bytes = 0

(***************************************************************************)
(* The put command: runPut validates its arguments and calls file.Upload.  *)
(***************************************************************************)
\* Bound of the put model: the number of local paths.
MaxPutPaths == 3

PutInit ==
    /\ put \in [local : UNION {[1 .. n -> BOOLEAN] : n \in 1 .. MaxPutPaths},
                remoteOk : BOOLEAN, destDir : BOOLEAN, limitOk : BOOLEAN,
                direct : BOOLEAN]
    /\ pPc = IF put.direct THEN "upload" ELSE "dest"
    /\ pI = 1
    /\ pLog = <<>>
    /\ pErr = "nil"

PutIdle ==
    /\ put = [local |-> <<TRUE>>, remoteOk |-> TRUE, destDir |-> TRUE,
              limitOk |-> TRUE, direct |-> FALSE]
    /\ pPc = "off"
    /\ pI = 1
    /\ pLog = <<>>
    /\ pErr = "nil"

\* file.IsRemotePath(dest), file.ParseRemotePath(dest)
PutParseDest ==
    /\ pPc = "dest"
    /\ IF put.remoteOk
          THEN pPc' = "stat" /\ pErr' = pErr
          ELSE pPc' = "ret" /\ pErr' = "invalid destination"
    /\ UNCHANGED <<put, pI, pLog>>
    /\ UNCHANGED nonPut

\* for _, p := range localPaths { if _, err := os.Stat(p); err != nil ... }
PutStat ==
    /\ pPc = "stat"
    /\ IF pI > Len(put.local)
          THEN /\ pPc' = "validate"
               /\ UNCHANGED <<pI, pLog, pErr>>
          ELSE /\ pLog' = Append(pLog, "stat")
               /\ IF put.local[pI]
                     THEN /\ pI' = pI + 1
                          /\ UNCHANGED <<pPc, pErr>>
                     ELSE /\ pPc' = "ret"
                          /\ pErr' = "local path not found"
                          /\ pI' = pI
    /\ UNCHANGED put
    /\ UNCHANGED nonPut

\* len(localPaths) > 1 && !file.IsDirectory(remote.Path)
MultiplePathsNeedDirectory(n, destDir) == n > 1 /\ ~destDir

PutValidate ==
    /\ pPc = "validate"
    /\ IF MultiplePathsNeedDirectory(Len(put.local), put.destDir)
          THEN pPc' = "ret" /\ pErr' = "destination must end with /"
          ELSE pPc' = "limit" /\ pErr' = pErr
    /\ UNCHANGED <<put, pI, pLog>>
    /\ UNCHANGED nonPut

\* file.ParseBandwidthLimit(limitStr)
PutLimit ==
    /\ pPc = "limit"
    /\ IF put.limitOk
          THEN pPc' = "upload" /\ pErr' = pErr
          ELSE pPc' = "ret" /\ pErr' = "invalid bandwidth limit"
    /\ UNCHANGED <<put, pI, pLog>>
    /\ UNCHANGED nonPut

\* file.Upload: CheckDeviceOnline first, then the transfer (above), which
\* succeeds or fails, and fails when a local path does not exist.
PutUpload ==
    /\ pPc = "upload"
    /\ pLog' = Append(pLog, "network")
    /\ pErr' \in IF \A k \in 1 .. Len(put.local) : put.local[k]
                     THEN {"nil", "upload failed"}
                     ELSE {"upload failed"}
    /\ pPc' = "ret"
    /\ UNCHANGED <<put, pI>>
    /\ UNCHANGED nonPut

PutNext ==
    \/ PutParseDest
    \/ PutStat
    \/ PutValidate
    \/ PutLimit
    \/ PutUpload

\* C17: an upload of more than one local path to a destination that does not
\* end in "/" fails with the validation error, before any filesystem or
\* network activity.
MultiPathUploadValidatedFirst ==
    (pPc = "ret" /\ put.remoteOk /\ Len(put.local) > 1 /\ ~put.destDir) =>
        (pErr = "destination must end with /" /\ pLog = <<>>)

(***************************************************************************)
(* ParseBandwidthLimit. A string is the sequence of its characters. A      *)
(* float64 is a record: a decimal number num / den with a sign, NaN, +Inf  *)
(* or -Inf. The result is the int64 and whether an error was returned; an  *)
(* int64 outside the checker's integers is named ("min", "max").           *)
(***************************************************************************)
\* The numeric portions and the suffixes the inputs are made of.
NumTokens ==
    {"", "0", "1", "10", "500", "1024", "0.5", "1.5", "2.5", "-100", "-0.5",
     "abc", "1x", "1.2.3", ".", "nan", "NaN", "inf", "-inf"}

SuffixTokens == {"", "B", "K", "KB", "M", "MB", "G", "GB", "k", "kb", "m", "g", "Gb", "X"}

Chars(tok) ==
    CASE tok = "" -> <<>>
      [] tok = "0" -> <<"0">>
      [] tok = "1" -> <<"1">>
      [] tok = "10" -> <<"1", "0">>
      [] tok = "500" -> <<"5", "0", "0">>
      [] tok = "1024" -> <<"1", "0", "2", "4">>
      [] tok = "0.5" -> <<"0", ".", "5">>
      [] tok = "1.5" -> <<"1", ".", "5">>
      [] tok = "2.5" -> <<"2", ".", "5">>
      [] tok = "-100" -> <<"-", "1", "0", "0">>
      [] tok = "-0.5" -> <<"-", "0", ".", "5">>
      [] tok = "abc" -> <<"a", "b", "c">>
      [] tok = "1x" -> <<"1", "x">>
      [] tok = "1.2.3" -> <<"1", ".", "2", ".", "3">>
      [] tok = "." -> <<".">>
      [] tok = "nan" -> <<"n", "a", "n">>
      [] tok = "NaN" -> <<"N", "a", "N">>
      [] tok = "inf" -> <<"i", "n", "f">>
      [] tok = "-inf" -> <<"-", "i", "n", "f">>
      [] tok = "B" -> <<"B">>
      [] tok = "K" -> <<"K">>
      [] tok = "KB" -> <<"K", "B">>
      [] tok = "M" -> <<"M">>
      [] tok = "MB" -> <<"M", "B">>
      [] tok = "G" -> <<"G">>
      [] tok = "GB" -> <<"G", "B">>
      [] tok = "k" -> <<"k">>
      [] tok = "kb" -> <<"k", "b">>
      [] tok = "m" -> <<"m">>
      [] tok = "g" -> <<"g">>
      [] tok = "Gb" -> <<"G", "b">>
      [] tok = "X" -> <<"X">>

\* The input made of a number, a suffix, and blanks around them or not.
InputOf(parts) ==
    (IF parts.blanks THEN <<" ">> ELSE <<>>) \o Chars(parts.num)
        \o Chars(parts.suffix) \o (IF parts.blanks THEN <<" ", " ">> ELSE <<>>)

\* The inputs of the model: the products stay below 2^31.
LimitParts ==
    {q \in [num : NumTokens, suffix : SuffixTokens, blanks : BOOLEAN] :
        /\ q.suffix \in {"G", "GB", "g", "Gb"} => q.num \notin {"10", "500", "1024", "2.5"}
        /\ q.suffix \in {"M", "MB", "m"} => q.num # "1024" \/ ~q.blanks}

\* strings.ToUpper, on the characters of the model.
UpperChar(c) ==
    CASE c = "a" -> "A" [] c = "b" -> "B" [] c = "c" -> "C" [] c = "f" -> "F"
      [] c = "g" -> "G" [] c = "i" -> "I" [] c = "k" -> "K" [] c = "m" -> "M"
      [] c = "n" -> "N" [] c = "x" -> "X" [] OTHER -> c

ToUpper(cs) == [k \in 1 .. Len(cs) |-> UpperChar(cs[k])]

RECURSIVE TrimSpace(_)
TrimSpace(cs) ==
    IF cs = <<>> THEN cs
    ELSE IF cs[1] = " " THEN TrimSpace(Tail(cs))
    ELSE IF cs[Len(cs)] = " " THEN TrimSpace(SubSeq(cs, 1, Len(cs) - 1))
    ELSE cs

HasSuffix(cs, suffix) ==
    /\ Len(cs) >= Len(suffix)
    /\ SubSeq(cs, Len(cs) - Len(suffix) + 1, Len(cs)) = suffix

TrimSuffix(cs, suffix) ==
    IF HasSuffix(cs, suffix) THEN SubSeq(cs, 1, Len(cs) - Len(suffix)) ELSE cs

DigitChars == <<"0", "1", "2", "3", "4", "5", "6", "7", "8", "9">>

IsDigit(c) == \E d \in 1 .. 10 : DigitChars[d] = c

DigitVal(c) == (CHOOSE d \in 1 .. 10 : DigitChars[d] = c) - 1

RECURSIVE NatOf(_)
NatOf(cs) ==
    IF cs = <<>> THEN 0
    ELSE 10 * NatOf(SubSeq(cs, 1, Len(cs) - 1)) + DigitVal(cs[Len(cs)])

RECURSIVE Pow10(_)
Pow10(n) == IF n = 0 THEN 1 ELSE 10 * Pow10(n - 1)

FloatErr == [kind |-> "err", neg |-> FALSE, num |-> 0, den |-> 1]

\* strconv.ParseFloat(cs, 64) on upper-case input without an exponent: an
\* optional sign, then INF, INFINITY or (unsigned) NAN, or digits with at
\* most one point and at least one digit.
ParseFloat(cs) ==
    LET signed == cs # <<>> /\ cs[1] \in {"-", "+"}
        neg == cs # <<>> /\ cs[1] = "-"
        body == IF signed THEN Tail(cs) ELSE cs
        dots == {k \in 1 .. Len(body) : body[k] = "."}
        digits == SelectSeq(body, IsDigit)
    IN IF body \in {<<"I", "N", "F">>, <<"I", "N", "F", "I", "N", "I", "T", "Y">>}
          THEN [kind |-> "inf", neg |-> neg, num |-> 0, den |-> 1]
       ELSE IF cs = <<"N", "A", "N">>
          THEN [kind |-> "nan", neg |-> FALSE, num |-> 0, den |-> 1]
       ELSE IF \/ digits = <<>>
               \/ Cardinality(dots) > 1
               \/ Len(digits) + Cardinality(dots) # Len(body)
          THEN FloatErr
       ELSE [kind |-> "num", neg |-> neg, num |-> NatOf(digits),
             den |-> IF dots = {} THEN 1
                     ELSE Pow10(Len(body) - (CHOOSE k \in dots : TRUE))]

\* num <= 0
NotPositive(f) ==
    \/ f.kind = "num" /\ (f.neg \/ f.num = 0)
    \/ f.kind = "inf" /\ f.neg

\* The switch on the suffix: the multiplier and the numeric portion.
SplitSuffix(cs) ==
    IF HasSuffix(cs, <<"G">>) THEN [mult |-> 1073741824, numStr |-> TrimSuffix(cs, <<"G">>)]
    ELSE IF HasSuffix(cs, <<"G", "B">>) THEN [mult |-> 1073741824, numStr |-> TrimSuffix(cs, <<"G", "B">>)]
    ELSE IF HasSuffix(cs, <<"M">>) THEN [mult |-> 1048576, numStr |-> TrimSuffix(cs, <<"M">>)]
    ELSE IF HasSuffix(cs, <<"M", "B">>) THEN [mult |-> 1048576, numStr |-> TrimSuffix(cs, <<"M", "B">>)]
    ELSE IF HasSuffix(cs, <<"K">>) THEN [mult |-> 1024, numStr |-> TrimSuffix(cs, <<"K">>)]
    ELSE IF HasSuffix(cs, <<"K", "B">>) THEN [mult |-> 1024, numStr |-> TrimSuffix(cs, <<"K", "B">>)]
    ELSE IF HasSuffix(cs, <<"B">>) THEN [mult |-> 1, numStr |-> TrimSuffix(cs, <<"B">>)]
    ELSE [mult |-> 1, numStr |-> cs]

Limit(n) == [val |-> n, big |-> "no", err |-> "nil"]

LimitErr(e) == [val |-> 0, big |-> "no", err |-> e]

\* The integer part of num * mult / den, computed without leaving 32 bits.
MulDiv(num, mult, den) ==
    (num \div den) * mult + (num % den) * (mult \div den)
        + ((num % den) * (mult % den)) \div den

\* int64(num * float64(multiplier)): the integer part; for NaN and for +Inf
\* the result depends on the processor (amd64: the smallest int64 for both;
\* arm64: 0 for NaN, the largest int64 for +Inf).
ToInt64(f, mult) ==
    CASE f.kind = "num" -> {Limit(MulDiv(f.num, mult, f.den))}
      [] f.kind = "nan" -> {[val |-> 0, big |-> "min", err |-> "nil"], Limit(0)}
      [] f.kind = "inf" -> {[val |-> 0, big |-> "min", err |-> "nil"],
                            [val |-> 0, big |-> "max", err |-> "nil"]}

\* The results ParseBandwidthLimit(s) can return.
ParseBandwidthLimit(cs) ==
    IF cs = <<>> THEN {Limit(0)}
    ELSE LET sp == SplitSuffix(TrimSpace(ToUpper(cs)))
             f == ParseFloat(sp.numStr)
         IN IF f.kind = "err" THEN {LimitErr("invalid bandwidth limit")}
            ELSE IF NotPositive(f) THEN {LimitErr("bandwidth limit must be positive")}
            ELSE ToInt64(f, sp.mult)

LimitInit ==
    /\ lParts \in LimitParts
    /\ lIn = InputOf(lParts)
    /\ lOut = Limit(0)
    /\ lPc = "parse"

LimitIdle ==
    /\ lParts = [num |-> "", suffix |-> "", blanks |-> FALSE]
    /\ lIn = <<>>
    /\ lOut = Limit(0)
    /\ lPc = "off"

ParseLimit ==
    /\ lPc = "parse"
    /\ lOut' \in ParseBandwidthLimit(lIn)
    /\ lPc' = "done"
    /\ UNCHANGED <<lParts, lIn>>
    /\ UNCHANGED nonLimit

LimitNext ==
    \/ ParseLimit

\* What the numeric portion of an input stands for: a decimal number
\* num / den with its sign, or nothing.
Magnitude(tok) ==
    CASE tok = "0" -> [ok |-> TRUE, sign |-> 0, num |-> 0, den |-> 1]
      [] tok = "1" -> [ok |-> TRUE, sign |-> 1, num |-> 1, den |-> 1]
      [] tok = "10" -> [ok |-> TRUE, sign |-> 1, num |-> 10, den |-> 1]
      [] tok = "500" -> [ok |-> TRUE, sign |-> 1, num |-> 500, den |-> 1]
      [] tok = "1024" -> [ok |-> TRUE, sign |-> 1, num |-> 1024, den |-> 1]
      [] tok = "0.5" -> [ok |-> TRUE, sign |-> 1, num |-> 1, den |-> 2]
      [] tok = "1.5" -> [ok |-> TRUE, sign |-> 1, num |-> 3, den |-> 2]
      [] tok = "2.5" -> [ok |-> TRUE, sign |-> 1, num |-> 5, den |-> 2]
      [] tok = "-100" -> [ok |-> TRUE, sign |-> -1, num |-> 100, den |-> 1]
      [] tok = "-0.5" -> [ok |-> TRUE, sign |-> -1, num |-> 1, den |-> 2]
      [] OTHER -> [ok |-> FALSE, sign |-> 0, num |-> 0, den |-> 1]

\* What the suffix of an input stands for, 0 for none of the units.
Multiplier(tok) ==
    CASE tok \in {"", "B"} -> 1
      [] tok \in {"K", "KB", "k", "kb"} -> 1024
      [] tok \in {"M", "MB", "m"} -> 1024 * 1024
      [] tok \in {"G", "GB", "g", "Gb"} -> 1024 * 1024 * 1024
      [] OTHER -> 0

\* C18: ParseBandwidthLimit maps the empty string to 0; a positive decimal
\* magnitude with a suffix B, K/KB, M/MB or G/GB in either case, or none, to
\* the magnitude times 1, 1024, 1024^2 or 1024^3 (its integer part); and
\* returns an error for every other input: a numeric portion that is not a
\* decimal number, or one that is not positive.
LimitParsedAsSpecified ==
    lPc = "done" =>
        LET m == Magnitude(lParts.num)
            x == Multiplier(lParts.suffix)
        IN IF lIn = <<>> THEN lOut = Limit(0)
           ELSE IF m.ok /\ m.sign > 0 /\ x > 0
                   THEN lOut = Limit(MulDiv(m.num, x, m.den))
                   ELSE lOut.err # "nil"

\* C29: ParseBandwidthLimit returns 0 without error for the empty string
\* only: every other input it accepts yields a strictly positive limit.
ZeroLimitOnlyForEmpty ==
    (lPc = "done" /\ lOut.err = "nil" /\ lIn # <<>>) =>
        (lOut.big = "max" \/ (lOut.big = "no" /\ lOut.val > 0))

(***************************************************************************)
(* Session.readLoop with the frames' contents: what it receives and what   *)
(* it writes to standard output.                                           *)
(***************************************************************************)
\* The most frames one session receives.
MaxPumpFrames == 2

PayloadTypeOutput == 1
PayloadTypeSize == 3
PayloadTypeExitCode == 12

\* A frame as the peer builds it.
PeerFrame(payloadType, payload) ==
    BuildMessage(MessageTypeOutputStream, payloadType, payload, <<0, 0, 0, 1>>,
                 <<0, 395, 53221, 26624>>, [k \in 1 .. MessageIDLength |-> k])

\* The frames ReadMessage delivers: frames of the three kinds the loop tells
\* apart, without payload and with one; frames that declare more payload
\* than they carry, less, or none; a frame cut inside the header; no bytes.
PumpFrames ==
    {PeerFrame(pt, p) :
        pt \in {PayloadTypeOutput, PayloadTypeSize, PayloadTypeExitCode},
        p \in {<<>>, <<7>>, <<0, 255>>}}
    \cup {WithLength(PeerFrame(pt, <<7>>), <<0, 3>>) :
            pt \in {PayloadTypeOutput, PayloadTypeExitCode}}
    \cup {WithLength(PeerFrame(PayloadTypeOutput, <<7>>), <<0, 0>>),
          WithLength(PeerFrame(PayloadTypeOutput, <<0, 255>>), <<0, 1>>),
          Truncated(PeerFrame(PayloadTypeOutput, <<7>>), HeaderLength - 1),
          <<>>}

IsOutput(m) == m.PayloadType = PayloadTypeOutput

IsExitCode(m) == m.PayloadType = PayloadTypeExitCode

\* if err != nil || msg.PayloadLength == 0 { continue }
Skipped(r) == r.err # "nil" \/ r.msg.PayloadLength = 0

WrittenWhateverType(r) == IF Skipped(r) THEN <<>> ELSE r.msg.Payload

\* What one iteration passes to os.Stdout.Write, r being what ParseMessage
\* returned for the frame.
Written(r) ==
    IF Skipped(r) THEN <<>>
    ELSE IF IsOutput(r.msg) THEN r.msg.Payload
    ELSE <<>>

\* Whether the iteration returns from readLoop.
Returns(r) == ~Skipped(r) /\ ~IsOutput(r.msg) /\ IsExitCode(r.msg)

PumpInit ==
    /\ oRecv = <<>>
    /\ oStdout = <<>>
    /\ oPc = "select"
    /\ oDone = FALSE
    /\ oConnOpen = TRUE

PumpIdle ==
    /\ oRecv = <<>>
    /\ oStdout = <<>>
    /\ oPc = "off"
    /\ oDone = FALSE
    /\ oConnOpen = FALSE

\* select { case <-s.done: return; default: ... }
PumpSelect ==
    /\ oPc = "select"
    /\ oPc' = IF oDone THEN "close" ELSE "recv"
    /\ UNCHANGED <<oRecv, oStdout, oDone, oConnOpen>>
    /\ UNCHANGED nonPump

\* The default branch: ReadMessage fails (always, once the connection is
\* released) and the loop returns, or it delivers a frame, which is parsed
\* and handled.
PumpRecv ==
    /\ oPc = "recv"
    /\ \/ /\ oPc' = "close"
          /\ UNCHANGED <<oRecv, oStdout>>
       \/ /\ oConnOpen /\ Len(oRecv) < MaxPumpFrames
          /\ \E message \in PumpFrames :
                LET r == ParseMessage(message)
                IN /\ oRecv' = Append(oRecv, message)
                   /\ oStdout' = oStdout \o Written(r)
                   /\ oPc' = IF Returns(r) THEN "close" ELSE "select"
    /\ UNCHANGED <<oDone, oConnOpen>>
    /\ UNCHANGED nonPump

\* defer s.Close()
PumpClose ==
    /\ oPc = "close"
    /\ oDone' = TRUE
    /\ oConnOpen' = FALSE
    /\ oPc' = "returned"
    /\ UNCHANGED <<oRecv, oStdout>>
    /\ UNCHANGED nonPump

\* Close called by another goroutine: the signal handler, or the write pump
\* on its way out.
PumpOtherClose ==
    /\ oPc \in {"select", "recv"} /\ ~oDone
    /\ oDone' = TRUE
    /\ oConnOpen' = FALSE
    /\ UNCHANGED <<oRecv, oStdout, oPc>>
    /\ UNCHANGED nonPump

PumpNext ==
    \/ PumpSelect
    \/ PumpRecv
    \/ PumpClose
    \/ PumpOtherClose

\* The payloads, as ParseMessage decodes them, of the frames of fs that
\* decode, declare a payload length other than zero and have type Output,
\* one after the other.
RECURSIVE OutputPayloads(_)
OutputPayloads(fs) ==
    IF fs = <<>> THEN <<>>
    ELSE LET r == ParseMessage(fs[Len(fs)])
             rest == OutputPayloads(SubSeq(fs, 1, Len(fs) - 1))
         IN IF r.err = "nil" /\ r.msg.PayloadLength # 0
                 /\ r.msg.PayloadType = PayloadTypeOutput
               THEN rest \o r.msg.Payload
               ELSE rest

\* A frame that fails to decode, declares no payload, or has a type that is
\* neither Output nor ExitCode.
NotActionable(f) ==
    LET r == ParseMessage(f)
    IN \/ r.err # "nil"
       \/ r.msg.PayloadLength = 0
       \/ r.msg.PayloadType \notin {PayloadTypeOutput, PayloadTypeExitCode}

\* C20: what the read pump has written to standard output is, at every
\* moment, the concatenation in receive order of the payloads of the received
\* frames that decode, declare a non-zero payload length and have type
\* Output; and the receipt of a frame that fails to decode, declares no
\* payload or has another type than Output and ExitCode leaves standard
\* output and the session (s.done, the connection, the pump still looping)
\* as they were.
StdoutIsTheOutputPayloads ==
    /\ [](oStdout = OutputPayloads(oRecv))
    /\ [][(oRecv' # oRecv /\ NotActionable(oRecv'[Len(oRecv')])) =>
             /\ oStdout' = oStdout
             /\ oDone' = oDone /\ oConnOpen' = oConnOpen
             /\ oPc' = "select"]_vars

\* C20 witness: the pump received a frame of type Size with a payload and
\* then an Output frame with a payload, and standard output holds the
\* payload of the second only.
OutputWrittenAfterIgnoredFrame ==
    /\ Len(oRecv) = 2
    /\ LET a == ParseMessage(oRecv[1])
           b == ParseMessage(oRecv[2])
       IN /\ a.err = "nil" /\ a.msg.PayloadType = PayloadTypeSize
          /\ a.msg.Payload # <<>>
          /\ b.err = "nil" /\ IsOutput(b.msg) /\ b.msg.Payload # <<>>
          /\ oStdout = b.msg.Payload
    /\ oPc = "select"

(***************************************************************************)
(* The update check: CompareVersions and UpdateInfo.IsUpdateAvailable. A   *)
(* version string is the sequence of its characters.                       *)
(***************************************************************************)
\* Bounds of the version model: the numeric parts of a version and the
\* largest number in a part.
MaxParts == 3
MaxNum == 1

RECURSIVE DecimalChars(_)
DecimalChars(n) ==
    IF n < 10 THEN <<DigitChars[n + 1]>>
    ELSE Append(DecimalChars(n \div 10), DigitChars[(n % 10) + 1])

RECURSIVE JoinDots(_)
JoinDots(ns) ==
    IF Len(ns) = 1 THEN DecimalChars(ns[1])
    ELSE JoinDots(SubSeq(ns, 1, Len(ns) - 1)) \o <<".">> \o DecimalChars(ns[Len(ns)])

DevVersion == <<"d", "e", "v">>

\* The version strings of the model: dotted numbers of one to MaxParts parts,
\* the development build, a pre-release tag, a part that is not a number, the
\* empty string; each with a "v" in front and without.
VersionStrings ==
    LET bare == {JoinDots(ns) : ns \in UNION {[1 .. k -> 0 .. MaxNum] : k \in 1 .. MaxParts}}
                  \cup {DevVersion, <<"1", ".", "0", "-", "r", "c">>, <<"1", ".", "x">>, <<>>}
    IN bare \cup {<<"v">> \o b : b \in bare}

\* strings.TrimPrefix(s, "v")
TrimPrefixV(cs) == IF cs # <<>> /\ cs[1] = "v" THEN Tail(cs) ELSE cs

\* strings.Split(s, ".")
RECURSIVE SplitDots(_)
SplitDots(cs) ==
    IF \A k \in 1 .. Len(cs) : cs[k] # "." THEN <<cs>>
    ELSE LET k == CHOOSE j \in 1 .. Len(cs) :
                      cs[j] = "." /\ \A h \in 1 .. j - 1 : cs[h] # "."
         IN <<SubSeq(cs, 1, k - 1)>> \o SplitDots(SubSeq(cs, k + 1, Len(cs)))

\* The digits a part begins with.
RECURSIVE LeadingDigits(_)
LeadingDigits(cs) ==
    IF cs = <<>> \/ ~IsDigit(cs[1]) THEN <<>>
    ELSE <<cs[1]>> \o LeadingDigits(Tail(cs))

\* fmt.Sscanf(part, "%d", &n) with n zero before: an optional sign and the
\* digits that follow; n stays 0 when there is no digit.
ScanInt(cs) ==
    IF cs # <<>> /\ cs[1] = "-" THEN 0 - NatOf(LeadingDigits(Tail(cs)))
    ELSE IF cs # <<>> /\ cs[1] = "+" THEN NatOf(LeadingDigits(Tail(cs)))
    ELSE NatOf(LeadingDigits(cs))

\* The loop over the parts, from part i on: a missing part counts as 0.
RECURSIVE CompareParts(_, _, _)
CompareParts(parts1, parts2, i) ==
    IF i > Len(parts1) /\ i > Len(parts2) THEN 0
    ELSE LET n1 == IF i <= Len(parts1) THEN ScanInt(parts1[i]) ELSE 0
             n2 == IF i <= Len(parts2) THEN ScanInt(parts2[i]) ELSE 0
         IN IF n1 > n2 THEN 1
            ELSE IF n1 < n2 THEN -1
            ELSE CompareParts(parts1, parts2, i + 1)

CompareVersions(v1, v2) ==
    LET a == TrimPrefixV(v1)
        b == TrimPrefixV(v2)
    IN IF a = DevVersion THEN -1
       ELSE IF b = DevVersion THEN 1
       ELSE CompareParts(SplitDots(a), SplitDots(b), 1)

IsUpdateAvailableOrSame(i) == CompareVersions(i.LatestVersion, i.CurrentVersion) >= 0

\* return CompareVersions(info.LatestVersion, info.CurrentVersion) > 0
IsUpdateAvailable(i) == CompareVersions(i.LatestVersion, i.CurrentVersion) > 0

VersionInit ==
    /\ info \in [LatestVersion : VersionStrings, CurrentVersion : VersionStrings]
    /\ vCmp = 0
    /\ vAvail = FALSE
    /\ vPc = "check"

VersionIdle ==
    /\ info = [LatestVersion |-> <<>>, CurrentVersion |-> <<>>]
    /\ vCmp = 0
    /\ vAvail = FALSE
    /\ vPc = "off"

\* The comparison of the two versions and the call of IsUpdateAvailable.
CheckUpdate ==
    /\ vPc = "check"
    /\ vCmp' = CompareVersions(info.LatestVersion, info.CurrentVersion)
    /\ vAvail' = IsUpdateAvailable(info)
    /\ vPc' = "done"
    /\ UNCHANGED info
    /\ UNCHANGED nonVersion

VersionNext ==
    \/ CheckUpdate

\* The two versions are the same version: the same string after the "v".
SameVersion == TrimPrefixV(info.LatestVersion) = TrimPrefixV(info.CurrentVersion)

BothDev ==
    /\ TrimPrefixV(info.LatestVersion) = DevVersion
    /\ TrimPrefixV(info.CurrentVersion) = DevVersion

InitSession == SessionInit /\ ThrottleIdle /\ CopyIdle /\ TransferIdle /\ CodecIdle
    /\ UploadFileIdle /\ PutIdle /\ LimitIdle /\ PumpIdle /\ VersionIdle

SpecSession == InitSession /\ [][SessionNext]_vars

InitThrottle == ThrottleInit /\ SessionIdle /\ CopyIdle /\ TransferIdle /\ CodecIdle
    /\ UploadFileIdle /\ PutIdle /\ LimitIdle /\ PumpIdle /\ VersionIdle

SpecThrottle == InitThrottle /\ [][ThrottleNext]_vars

\* The caller's loop keeps calling Read until io.EOF, and Write keeps looping
\* until it returns.
SpecThrottleFair ==
    /\ SpecThrottle
    /\ WF_vars(PlainRead) /\ WF_vars(ThrottledRead)
    /\ WF_vars(PlainWrite) /\ WF_vars(ThrottledWrite)

InitCopy == CopyInit /\ SessionIdle /\ ThrottleIdle /\ TransferIdle /\ CodecIdle
    /\ UploadFileIdle /\ PutIdle /\ LimitIdle /\ PumpIdle /\ VersionIdle

SpecCopy == InitCopy /\ [][CopyNext]_vars

InitTransfer == TransferInit /\ SessionIdle /\ ThrottleIdle /\ CopyIdle /\ CodecIdle
    /\ UploadFileIdle /\ PutIdle /\ LimitIdle /\ PumpIdle /\ VersionIdle

SpecTransfer == InitTransfer /\ [][TransferNext]_vars

InitCodec == CodecInit /\ SessionIdle /\ ThrottleIdle /\ CopyIdle /\ TransferIdle
    /\ UploadFileIdle /\ PutIdle /\ LimitIdle /\ PumpIdle /\ VersionIdle

SpecCodec == InitCodec /\ [][CodecNext]_vars

InitDecode == DecodeInit /\ SessionIdle /\ ThrottleIdle /\ CopyIdle /\ TransferIdle
    /\ UploadFileIdle /\ PutIdle /\ LimitIdle /\ PumpIdle /\ VersionIdle

SpecDecode == InitDecode /\ [][DecodeNext]_vars

InitUploadFile ==
    /\ ReaderInit /\ WriterIdle /\ UploadFileInit
    /\ SessionIdle /\ CopyIdle /\ TransferIdle /\ CodecIdle /\ PutIdle /\ LimitIdle
    /\ PumpIdle /\ VersionIdle

SpecUploadFile == InitUploadFile /\ [][UploadFileNext]_vars

InitPut ==
    /\ PutInit
    /\ SessionIdle /\ ThrottleIdle /\ CopyIdle /\ TransferIdle /\ CodecIdle
    /\ UploadFileIdle /\ LimitIdle /\ PumpIdle /\ VersionIdle

SpecPut == InitPut /\ [][PutNext]_vars

InitLimit ==
    /\ LimitInit
    /\ SessionIdle /\ ThrottleIdle /\ CopyIdle /\ TransferIdle /\ CodecIdle
    /\ UploadFileIdle /\ PutIdle /\ PumpIdle /\ VersionIdle

SpecLimit == InitLimit /\ [][LimitNext]_vars

InitPump ==
    /\ PumpInit
    /\ SessionIdle /\ ThrottleIdle /\ CopyIdle /\ TransferIdle /\ CodecIdle
    /\ UploadFileIdle /\ PutIdle /\ LimitIdle /\ VersionIdle

SpecPump == InitPump /\ [][PumpNext]_vars

\* The scheduler runs every goroutine that can take a step, and the process
\* ends once runSSH returns. What waits for the outside world (a frame, a
\* chunk of standard input, a signal) may wait for ever.
SpecSessionFair ==
    /\ SpecSession
    /\ WF_vars(RunMakeRaw) /\ WF_vars(RunNotify) /\ WF_vars(setupResizeHandler)
    /\ WF_vars(RunStartPumps) /\ WF_vars(RunReturn) /\ WF_vars(ProcessExit)
    /\ WF_vars(WriteLoopSelect) /\ WF_vars(WriteLoopStore) /\ WF_vars(WriteLoopWrite)
    /\ WF_vars(ReadLoopSelect)
    /\ \A t \in Sizers :
          WF_vars(SendSizeCheck(t)) /\ WF_vars(SendSizeStore(t))
              /\ WF_vars(SendSizeWrite(t))
    /\ \A t \in Closers :
          /\ WF_vars(CloseSelect(t)) /\ WF_vars(CloseChan(t))
          /\ WF_vars(CloseRestore(t)) /\ WF_vars(CloseWrite(t))
          /\ WF_vars(CloseConn(t))

InitVersion ==
    /\ VersionInit
    /\ SessionIdle /\ ThrottleIdle /\ CopyIdle /\ TransferIdle /\ CodecIdle
    /\ UploadFileIdle /\ PutIdle /\ LimitIdle /\ PumpIdle

SpecVersion == InitVersion /\ [][VersionNext]_vars

====
